---- MODULE Spec2Model ----
(***************************************************************************)
(* Model of the download service of kroma-downloader                       *)
(* (src/services/mockYtDlpService.ts): the process-wide ApiConfig, the     *)
(* streaming download engine downloadVideoReal, the simulated engine       *)
(* downloadVideoMock and the public delegate simulateDownload.             *)
(*                                                                         *)
(* Units.  Byte counts are bytes.  Clock readings (Date.now()) are integer *)
(* milliseconds.  A progress value is kept in tenths of a percent, rounded *)
(* down (progress 99.9 is 999, progress 100 is 1000).  A speed in MB/s is  *)
(* kept in tenths, as toFixed(1) prints it.  Strings the code builds or    *)
(* searches are sequences of words.                                        *)
(*                                                                         *)
(* Not modelled: url, formatId and the karaoke option.  They only feed the *)
(* query string of the request and no later step of the engine reads them. *)
(***************************************************************************)
EXTENDS Integers, Sequences, FiniteSets, TLC

VARIABLES
    currentConfig,   \* the module-level ApiConfig record
    pc,              \* position of the one download invocation
    engine,          \* "none" | "real" | "mock": the engine simulateDownload chose
    args,            \* arguments of the invocation
    requests,        \* endpoints handed to fetch() by this invocation, in order
    response,        \* what fetch() resolved with (NoResponse before that)
    contentLength,   \* downloadVideoReal: const contentLength
    receivedLength,  \* downloadVideoReal: let receivedLength
    startTime,       \* downloadVideoReal: const startTime
    lastUpdate,      \* downloadVideoReal: let lastUpdate
    reads,           \* number of reader.read() calls that returned a chunk
    clock,           \* the last reading of the wall clock
    progress,        \* downloadVideoMock: let progress
    interval,        \* downloadVideoMock: TRUE while the setInterval timer is armed
    lastSample,      \* the last DownloadProgress handed to onProgress (NoSample: none)
    firstKind,       \* which onProgress call site made the first callback
    lastKind,        \* which onProgress call site made the last callback
    lastBytes,       \* receivedLength when the last callback was made
    hundreds,        \* number of callbacks made with progress = 100
    loopAt,          \* clock readings of the previous and the latest in-loop sample
    result,          \* the Blob the promise resolved with (NoBlob before that)
    failure,         \* the error the promise rejected with (NoError before that)
    formats,         \* the format catalog of the media item on display
    call,            \* the last call of a catalog function: its name and arguments
    returned,        \* what that call returned
    infoPc,          \* position of the one metadata fetch
    infoUrl,         \* fetchVideoInfo: url
    infoEngine,      \* "none" | "real" | "mock": the fetcher fetchVideoInfo chose
    infoAborted,     \* fetchVideoInfoReal: TRUE once controller.abort() rejected fetch()
    infoTimer,       \* fetchVideoInfoReal: TRUE while the 25 s timeout is armed
    infoResponse,    \* what fetch() resolved with (NoInfoResponse before that)
    infoResult,      \* the MediaInfo the promise resolved with (NoInfo before that)
    infoFailure,     \* the error the promise rejected with (NoError before that)
    nameArgs,        \* formatFilename: template, info, fallback, ext
    nameResult,      \* formatFilename: <<>> before the call, <<name>> after it
    uiUrl,           \* App: const [url, setUrl], the text of the input
    loading,         \* App: TRUE while handleFetchInfo awaits fetchVideoInfo
    loadingMorePlaylist, \* App: TRUE while handleLoadMorePlaylist awaits fetchVideoInfo
    videoInfo,       \* App: the MediaInfo on display (NoMedia: null)
    selectedVideoFromPlaylist, \* App: <<>> is null, <<video>> a playlist entry
    selectedFormat,  \* App: <<>> is null, <<id>> a format id
    playlistLimit,   \* App: const [playlistLimit, setPlaylistLimit]
    downloadState,   \* App: 'idle' | 'downloading' | 'completed'
    keyView,         \* the state the registered onKeyDown listener closed over
    fetchCall,       \* the fetchVideoInfo call handleFetchInfo awaits (<<>>: none)
    moreCall,        \* the call handleLoadMorePlaylist awaits, with what it closed over
    running,         \* number of simulateDownload calls handleDownload awaits
    timers,          \* number of armed 3 s reset timers
    submitted        \* the url of the latest handleFetchInfo that went to the backend

vars == <<currentConfig, pc, engine, args, requests, response, contentLength,
          receivedLength, startTime, lastUpdate, reads, clock, progress, interval,
          lastSample, firstKind, lastKind, lastBytes, hundreds, loopAt, result,
          failure, formats, call, returned, infoPc, infoUrl, infoEngine, infoAborted,
          infoTimer, infoResponse, infoResult, infoFailure, nameArgs, nameResult,
          uiUrl, loading, loadingMorePlaylist, videoInfo, selectedVideoFromPlaylist,
          selectedFormat, playlistLimit, downloadState, keyView, fetchCall, moreCall,
          running, timers, submitted>>

uiVars == <<uiUrl, loading, loadingMorePlaylist, videoInfo, selectedVideoFromPlaylist,
            selectedFormat, playlistLimit, downloadState, keyView, fetchCall, moreCall,
            running, timers, submitted>>
appVars == <<nameArgs, nameResult, uiVars>>
catalogVars == <<formats, call, returned>>
infoVars == <<infoPc, infoUrl, infoEngine, infoAborted, infoTimer, infoResponse,
              infoResult, infoFailure>>

(***************************************************************************)
(* Bounds of the model.                                                    *)
(***************************************************************************)
MaxReads == 2
MaxClock == 1070
MaxReceived == 2000000

(***************************************************************************)
(* Input sets.                                                             *)
(***************************************************************************)
\* reader.read() chunk sizes (value.length)
ChunkSizes == {0, 400000, 1000000}
\* time that passes across one await
Deltas == {0, 150, 151}
\* expectedFileSize: <<>> is undefined, <<n>> is the number n
FileSizes == {<<>>, <<1000>>, <<5000000>>}
\* options?.playlistCombine
CombineModes == {"undefined", "audio", "video"}
\* the Content-Length header as headers.get returns it: <<>> is null, else 1*DIGIT
ContentLengthHeaders == {<<>>, <<"0">>, <<"1", "0", "0", "0", "0", "0", "0">>}
\* serverUrl values, a trailing "/" kept as a token of its own
ServerUrls == {<<"http://127.0.0.1:8000">>}
FilenameTemplates == {"{title}"}
\* error bodies of a non-2xx response
ErrorBodies ==
    { [kind |-> "json", detail |-> <<"Video", "unavailable">>, text |-> <<>>],
      [kind |-> "json", detail |-> <<>>, text |-> <<>>],
      [kind |-> "text", detail |-> <<>>, text |-> <<"Internal", "Server", "Error">>],
      [kind |-> "text", detail |-> <<>>, text |-> <<>>] }
ErrorStatuses == { <<"404", "Not", "Found">>, <<"500", "Internal", "Server", "Error">> }
\* messages of the TypeError fetch() rejects with when no connection is made
\* (browsers differ)
FetchFailureMessages == { <<"Failed", "to", "fetch">>, <<"Load", "failed">> }
\* messages of the TypeError reader.read() rejects with when the stream breaks
\* (browsers differ)
StreamFailureMessages == { <<"network", "error">>, <<"Failed", "to", "fetch">> }
\* Math.random() * 2 + 1, in tenths of a percent
Increments == {10, 20}
\* (Math.random() * 15 + 5).toFixed(1), in tenths of MB/s
SpeedVals == {50, 199}

(***************************************************************************)
(* Values standing for "nothing yet".                                      *)
(***************************************************************************)
NoLabel == [label |-> "", min |-> 0, sec |-> 0]
NoSample == [progress |-> -1, speed |-> NoLabel, eta |-> NoLabel]
NoError == [name |-> "", message |-> <<>>]
NoBlob == [size |-> -1, type |-> ""]
NoResponse == [ok |-> FALSE, status |-> <<>>, body |-> [kind |-> "", detail |-> <<>>, text |-> <<>>],
               header |-> <<>>, hasBody |-> FALSE]
NoArgs == [fileSize |-> <<>>, convertToMp3 |-> FALSE, playlistCombine |-> "undefined"]
NoCall == [fn |-> "none", selectedFormatId |-> "", convertToMp3 |-> FALSE]
NoInfoResponse == [ok |-> FALSE, status |-> "", body |-> [kind |-> "", detail |-> <<>>, text |-> <<>>]]
NoInfo == [kind |-> "none", formats |-> <<>>, videos |-> <<>>]
NoMedia == [kind |-> "none", requested |-> "", formats |-> <<>>, videos |-> <<>>,
            length |-> 0, video_count |-> 0]
NoNameArgs ==
    [template |-> <<>>,
     info |-> [title |-> <<>>, uploader |-> <<>>, resolution |-> <<>>, formatId |-> <<>>,
               id |-> <<>>],
     fallback |-> <<>>, ext |-> <<>>]

(***************************************************************************)
(* Arithmetic helpers.                                                     *)
(***************************************************************************)
Min(a, b) == IF a <= b THEN a ELSE b

\* Math.ceil(n / d) for d > 0
Ceil(n, d) == -((-n) \div d)

\* n / d rounded to the nearest integer, halves up (toFixed), for n >= 0 and even d > 0
RoundDiv(n, d) == (n + d \div 2) \div d

(***************************************************************************)
(* The configuration surface.                                              *)
(***************************************************************************)
DefaultConfig ==
    [useServer |-> TRUE, serverUrl |-> <<"http://127.0.0.1:8000">>,
     filenameTemplate |-> "{title}"]

\* Partial<ApiConfig>: each field is <<>> (not named) or <<v>> (named, with value v)
Partials ==
    [useServer : {<<>>} \cup {<<b>> : b \in BOOLEAN},
     serverUrl : {<<>>} \cup {<<u>> : u \in ServerUrls},
     filenameTemplate : {<<>>} \cup {<<t>> : t \in FilenameTemplates}]

\* faulty variant of MergeConfig: the fields the partial does not name are reset
MergeConfig_Replace(config, partial) ==
    [useServer |->
        IF partial.useServer # <<>> THEN partial.useServer[1] ELSE DefaultConfig.useServer,
     serverUrl |->
        IF partial.serverUrl # <<>> THEN partial.serverUrl[1] ELSE DefaultConfig.serverUrl,
     filenameTemplate |->
        IF partial.filenameTemplate # <<>> THEN partial.filenameTemplate[1]
        ELSE DefaultConfig.filenameTemplate]

\* { ...currentConfig, ...config }
MergeConfig(config, partial) ==
    [useServer |->
        IF partial.useServer # <<>> THEN partial.useServer[1] ELSE config.useServer,
     serverUrl |->
        IF partial.serverUrl # <<>> THEN partial.serverUrl[1] ELSE config.serverUrl,
     filenameTemplate |->
        IF partial.filenameTemplate # <<>> THEN partial.filenameTemplate[1]
        ELSE config.filenameTemplate]

(***************************************************************************)
(* Building the request.                                                   *)
(***************************************************************************)
\* serverUrl.replace(/\/$/, '')
StripTrailingSlash(u) ==
    IF Len(u) > 0 /\ u[Len(u)] = "/" THEN SubSeq(u, 1, Len(u) - 1) ELSE u

\* the endpoint: base URL, path and the query parameters the arguments switch on
BuildEndpoint(config, a) ==
    [base |-> StripTrailingSlash(config.serverUrl),
     path |-> "/api/download",
     convert_to_mp3 |-> a.convertToMp3,
     filename_template |-> IF config.filenameTemplate # "" THEN config.filenameTemplate ELSE "",
     playlist_combine |-> IF a.playlistCombine # "undefined" THEN a.playlistCombine ELSE ""]

(***************************************************************************)
(* The total size.                                                         *)
(***************************************************************************)
DigitValue(c) ==
    CASE c = "0" -> 0 [] c = "1" -> 1 [] c = "2" -> 2 [] c = "3" -> 3 [] c = "4" -> 4
      [] c = "5" -> 5 [] c = "6" -> 6 [] c = "7" -> 7 [] c = "8" -> 8 [] c = "9" -> 9

RECURSIVE ParseDigits(_, _)
ParseDigits(s, acc) ==
    IF s = <<>> THEN acc ELSE ParseDigits(Tail(s), acc * 10 + DigitValue(Head(s)))

\* parseInt(header, 10) of a non-empty string of digits
ParseInt10(s) == ParseDigits(s, 0)

\* expectedFileSize || 0
OrZero(fileSize) == IF fileSize = <<>> \/ fileSize[1] = 0 THEN 0 ELSE fileSize[1]

\* faulty variant of TotalBytes: the header is trusted even when converting
TotalBytes_HeaderFirst(convertToMp3, contentLengthHeader, expectedFileSize) ==
    IF contentLengthHeader # <<>>
    THEN ParseInt10(contentLengthHeader)
    ELSE OrZero(expectedFileSize)

TotalBytes(convertToMp3, contentLengthHeader, expectedFileSize) ==
    IF convertToMp3
    THEN OrZero(expectedFileSize)
    ELSE IF contentLengthHeader # <<>>
         THEN ParseInt10(contentLengthHeader)
         ELSE OrZero(expectedFileSize)

(***************************************************************************)
(* Progress, speed and ETA of an in-loop sample.                           *)
(***************************************************************************)
\* faulty variant of ShouldUpdate: an update as soon as 150 ms have passed
ShouldUpdate_AtLeast(now, last) == now - last >= 150

ShouldUpdate(now, last) == now - last > 150

\* faulty variant of Accumulate: the chunk's size replaces the running total
Accumulate_Overwrite(received, len) == len

\* receivedLength += value.length
Accumulate(received, len) == received + len

\* The least byte count at which Math.log(mb + 1) * 12 reaches p percent, p = 1..91
\* (mb = bytes / (1024 * 1024)); the 92 percent mark lies beyond 2^31 bytes.
LogCurveMarks ==
    << 91126, 190171, 297823, 414830, 542006, 680234, 830475, 993772, 1171260, 1364173,
       1573850, 1801750, 2049454, 2318686, 2611314, 2929374, 3275073, 3650816, 4059212,
       4503100, 4985563, 5509954, 6079917, 6699411, 7372743, 8104589, 8900037, 9764611,
       10704321, 11725695, 12835831, 14042442, 15353913, 16779356, 18328675, 20012636,
       21842941, 23832307, 25994556, 28344714, 30899109, 33675493, 36693155, 39973064,
       43538011, 47412765, 51624252, 56201734, 61177018, 66584674, 72462277, 78850668,
       85794236, 93341228, 101544084, 110459802, 120150331, 130683007, 142131015,
       154573901, 168098125, 182797658, 198774640, 216140087, 235014661, 255529512,
       277827187, 302062620, 328404210, 357034992, 388153904, 421977175, 458739826,
       498697300, 542127240, 589331418, 640637830, 696402978, 757014342, 822893079,
       894496945, 972323478, 1056913451, 1148854635, 1248785881, 1357401556, 1475456374,
       1603770633, 1743235921, 1894821307, 2059580077 >>

\* Math.log(mb + 1) * 12, rounded down to a whole percent, in tenths
LogCurve(received) ==
    10 * Cardinality({p \in DOMAIN LogCurveMarks : LogCurveMarks[p] <= received})

\* faulty variant of KnownProgress: the percentage is capped at 100 instead of 99.9
KnownProgress_CapHundred(received, total) == Min(1000, (received * 1000) \div total)

\* faulty variant of KnownProgress: the percentage is not capped
KnownProgress_NoCap(received, total) == (received * 1000) \div total

\* contentLength > 0: (receivedLength / contentLength) * 100, at most 99.9
KnownProgress(received, total) == Min(999, (received * 1000) \div total)

\* otherwise: Math.min(contentLength ? 98 : 95, Math.log(mb + 1) * 12)
IndeterminateProgress(received, total) ==
    Min(IF total # 0 THEN 980 ELSE 950, LogCurve(received))

LoopProgress(received, total) ==
    IF total > 0 THEN KnownProgress(received, total)
    ELSE IndeterminateProgress(received, total)

\* speedBytesPerSec > 0, with elapsed = (now - startTime) / 1000
SpeedPositive(received, elapsedMs) == elapsedMs > 0 /\ received > 0

\* (speedBytesPerSec / (1024 * 1024)).toFixed(1), in tenths of MB/s
SpeedLabel(received, elapsedMs) ==
    [label |-> "MB/s", min |-> 0,
     sec |-> IF elapsedMs > 0 THEN RoundDiv(received * 625, elapsedMs * 65536) ELSE 0]

\* Math.ceil(remaining / speedBytesPerSec)
EtaSeconds(received, total, elapsedMs) ==
    Ceil((total - received) * elapsedMs, received * 1000)

EtaLabel(received, total, elapsedMs) ==
    IF total # 0 /\ SpeedPositive(received, elapsedMs)
    THEN LET etaSec == EtaSeconds(received, total, elapsedMs)
         IN  IF etaSec < 60
             THEN [label |-> "s", min |-> 0, sec |-> etaSec]
             ELSE [label |-> "m s", min |-> etaSec \div 60, sec |-> etaSec % 60]
    ELSE [label |-> "calculating...", min |-> 0, sec |-> 0]

LoopSample(received, total, now, start) ==
    [progress |-> LoopProgress(received, total),
     speed |-> SpeedLabel(received, now - start),
     eta |-> EtaLabel(received, total, now - start)]

InitialSample ==
    [progress |-> 0,
     speed |-> [label |-> "Starting...", min |-> 0, sec |-> 0],
     eta |-> [label |-> "calculating...", min |-> 0, sec |-> 0]]

FinalSample ==
    [progress |-> 1000,
     speed |-> [label |-> "Done", min |-> 0, sec |-> 0],
     eta |-> [label |-> "s", min |-> 0, sec |-> 0]]

(***************************************************************************)
(* Errors.                                                                 *)
(***************************************************************************)
Includes(message, word) == \E i \in DOMAIN message : message[i] = word

TypeError(message) == [name |-> "TypeError", message |-> message]
PlainError(message) == [name |-> "Error", message |-> message]

LostConnectionMessage == <<"Lost", "connection", "to", "server", "during", "download.">>
CannotReachMessage == <<"Cannot", "reach", "backend.">>
NoStreamMessage == <<"ReadableStream", "not", "supported", "by", "your", "browser">>
DownloadFailedPrefix == <<"Download", "failed:">>

\* response.json(): consumes the body, then parses it
BodyJson(body, used) ==
    [ok |-> ~used /\ body.kind = "json", detail |-> body.detail, used |-> TRUE]

\* response.text(): rejects when the body was consumed already
BodyText(body, used) == [ok |-> ~used, text |-> body.text, used |-> TRUE]

\* the message of the Error thrown for a non-2xx response
RejectionMessage(resp) ==
    LET default == DownloadFailedPrefix \o resp.status
        errJson == BodyJson(resp.body, FALSE)
    IN  IF errJson.ok
        THEN IF errJson.detail # <<>> THEN DownloadFailedPrefix \o errJson.detail
             ELSE default
        ELSE LET errText == BodyText(resp.body, errJson.used)
             IN  IF errText.ok /\ errText.text # <<>>
                 THEN DownloadFailedPrefix \o errText.text
                 ELSE default

\* the catch block of downloadVideoReal: what the promise rejects with
CatchDownload(error) ==
    IF error.name = "TypeError" /\ Includes(error.message, "fetch")
    THEN PlainError(LostConnectionMessage)
    ELSE error

(***************************************************************************)
(* The simulated engine's arithmetic.                                      *)
(***************************************************************************)
\* Math.ceil((remainingPercent / increment) * 0.1)
MockEta(progressAfter, increment) == Ceil(1000 - progressAfter, 10 * increment)

MockStats(progressAfter, increment, speedVal) ==
    [progress |-> Min(progressAfter, 1000),
     speed |-> [label |-> "MB/s", min |-> 0, sec |-> speedVal],
     eta |-> [label |-> "s", min |-> 0, sec |-> MockEta(progressAfter, increment)]]

MockFinished(progressAfter) == progressAfter >= 1000

\* { ...stats, progress: 100, eta: '0s' }
MockFinalSample(stats) ==
    [stats EXCEPT !.progress = 1000, !.eta = [label |-> "s", min |-> 0, sec |-> 0]]

\* faulty variant of MockBlobType: the playlist combine mode is not looked at
MockBlobType_IgnoreCombine(convertToMp3, playlistCombine) ==
    IF ~convertToMp3 THEN "video/mp4" ELSE "audio/mpeg"

MockBlobType(convertToMp3, playlistCombine) ==
    IF playlistCombine = "video" \/ ~convertToMp3 THEN "video/mp4" ELSE "audio/mpeg"

(***************************************************************************)
(* The initial state: the module is loaded, no download was invoked.       *)
(***************************************************************************)
InitEngines ==
    /\ currentConfig = DefaultConfig
    /\ pc = "idle"
    /\ engine = "none"
    /\ args = NoArgs
    /\ requests = <<>>
    /\ response = NoResponse
    /\ contentLength = 0
    /\ receivedLength = 0
    /\ startTime = 0
    /\ lastUpdate = 0
    /\ reads = 0
    /\ clock = 0
    /\ progress = 0
    /\ interval = FALSE
    /\ lastSample = NoSample
    /\ firstKind = "none"
    /\ lastKind = "none"
    /\ lastBytes = 0
    /\ hundreds = 0
    /\ loopAt = <<-1, -1>>
    /\ result = NoBlob
    /\ failure = NoError

InitInfo ==
    /\ infoPc = "idle"
    /\ infoUrl = <<>>
    /\ infoEngine = "none"
    /\ infoAborted = FALSE
    /\ infoTimer = FALSE
    /\ infoResponse = NoInfoResponse
    /\ infoResult = NoInfo
    /\ infoFailure = NoError

\* const PLAYLIST_PAGE_SIZE, const MAX_PLAYLIST_FETCH
PLAYLIST_PAGE_SIZE == 50
MAX_PLAYLIST_FETCH == 500

\* the useState initial values of App, and the listener of the first render
InitUi ==
    /\ uiUrl = ""
    /\ loading = FALSE
    /\ loadingMorePlaylist = FALSE
    /\ videoInfo = NoMedia
    /\ selectedVideoFromPlaylist = <<>>
    /\ selectedFormat = <<>>
    /\ playlistLimit = PLAYLIST_PAGE_SIZE
    /\ downloadState = "idle"
    /\ keyView = [selectedVideoFromPlaylist |-> <<>>, videoInfo |-> NoMedia]
    /\ fetchCall = <<>>
    /\ moreCall = <<>>
    /\ running = 0
    /\ timers = 0
    /\ submitted = ""

InitApp ==
    /\ nameArgs = NoNameArgs
    /\ nameResult = <<>>
    /\ InitUi

\* the application before any media information has been fetched
Init ==
    /\ InitEngines
    /\ formats = <<>>
    /\ call = NoCall
    /\ returned = <<>>
    /\ InitInfo
    /\ InitApp

realVars == <<response, contentLength, receivedLength, startTime, lastUpdate, reads, clock>>
mockVars == <<progress, interval>>
sampleVars == <<lastSample, firstKind, lastKind, lastBytes, hundreds>>

\* onProgress(sample), called from the call site `kind` with `bytes` received so far
OnProgress(sample, kind, bytes) ==
    /\ lastSample' = sample
    /\ firstKind' = IF firstKind = "none" THEN kind ELSE firstKind
    /\ lastKind' = kind
    /\ lastBytes' = bytes
    /\ hundreds' = hundreds + (IF sample.progress = 1000 THEN 1 ELSE 0)

\* faulty variant of Reject: the catch block swallows the error and the promise resolves
Reject_Swallow(error) ==
    /\ pc' = "completed"
    /\ failure' = NoError

\* the promise of the invocation rejects with `error`
Reject(error) ==
    /\ pc' = "failed"
    /\ failure' = error

(***************************************************************************)
(* updateApiConfig                                                         *)
(***************************************************************************)
updateApiConfig(partial) ==
    /\ currentConfig' = MergeConfig(currentConfig, partial)
    /\ UNCHANGED <<pc, engine, args, requests, realVars, mockVars, sampleVars, loopAt,
                   result, failure>>
    /\ UNCHANGED <<catalogVars, infoVars, appVars>>

(***************************************************************************)
(* simulateDownload: the delegate, up to the first await of the engine     *)
(***************************************************************************)
\* useServer: downloadVideoReal builds the endpoint and calls fetch(endpoint)
downloadVideoRealStart(a) ==
    /\ pc = "idle"
    /\ currentConfig.useServer
    /\ engine' = "real"
    /\ args' = a
    /\ requests' = Append(requests, BuildEndpoint(currentConfig, a))
    /\ pc' = "fetching"
    /\ UNCHANGED <<currentConfig, realVars, mockVars, sampleVars, loopAt, result, failure>>
    /\ UNCHANGED <<catalogVars, infoVars, appVars>>

\* otherwise: downloadVideoMock arms the 100 ms interval
downloadVideoMockStart(a) ==
    /\ pc = "idle"
    /\ ~currentConfig.useServer
    /\ engine' = "mock"
    /\ args' = a
    /\ progress' = 0
    /\ interval' = TRUE
    /\ pc' = "ticking"
    /\ UNCHANGED <<currentConfig, requests, realVars, sampleVars, loopAt, result, failure>>
    /\ UNCHANGED <<catalogVars, infoVars, appVars>>

simulateDownload(a) ==
    \/ downloadVideoRealStart(a)
    \/ downloadVideoMockStart(a)

(***************************************************************************)
(* downloadVideoReal                                                       *)
(***************************************************************************)
\* fetch() rejects: the catch block decides what the promise rejects with
FetchRejects(message) ==
    /\ pc = "fetching"
    /\ Reject(CatchDownload(TypeError(message)))
    /\ UNCHANGED <<currentConfig, engine, args, requests, realVars, mockVars, sampleVars,
                   loopAt, result>>
    /\ UNCHANGED <<catalogVars, infoVars, appVars>>

\* fetch() resolves with a non-2xx response
ResponseNotOk(status, body) ==
    /\ pc = "fetching"
    /\ response' = [ok |-> FALSE, status |-> status, body |-> body, header |-> <<>>,
                    hasBody |-> TRUE]
    /\ Reject(CatchDownload(PlainError(RejectionMessage(response'))))
    /\ UNCHANGED <<currentConfig, engine, args, requests, contentLength, receivedLength,
                   startTime, lastUpdate, reads, clock, mockVars, sampleVars, loopAt,
                   result>>
    /\ UNCHANGED <<catalogVars, infoVars, appVars>>

\* fetch() resolves with a 2xx response whose body is null
ResponseNoBody(header) ==
    /\ pc = "fetching"
    /\ response' = [NoResponse EXCEPT !.ok = TRUE, !.header = header]
    /\ contentLength' = TotalBytes(args.convertToMp3, header, args.fileSize)
    /\ Reject(CatchDownload(PlainError(NoStreamMessage)))
    /\ UNCHANGED <<currentConfig, engine, args, requests, receivedLength, startTime,
                   lastUpdate, reads, clock, mockVars, sampleVars, loopAt, result>>
    /\ UNCHANGED <<catalogVars, infoVars, appVars>>

\* fetch() resolves with a 2xx response and a readable body: up to the first read()
ResponseOpened(header, d) ==
    /\ pc = "fetching"
    /\ clock + d <= MaxClock
    /\ response' = [NoResponse EXCEPT !.ok = TRUE, !.header = header, !.hasBody = TRUE]
    /\ contentLength' = TotalBytes(args.convertToMp3, header, args.fileSize)
    /\ receivedLength' = 0
    /\ clock' = clock + d
    /\ startTime' = clock'
    /\ lastUpdate' = clock'
    /\ OnProgress(InitialSample, "initial", 0)
    /\ loopAt' = <<-1, -1>>
    /\ pc' = "reading"
    /\ UNCHANGED <<currentConfig, engine, args, requests, reads, mockVars, result, failure>>
    /\ UNCHANGED <<catalogVars, infoVars, appVars>>

\* reader.read() returns a chunk of `len` bytes; Date.now() reads clock + d
ReadChunk(len, d) ==
    /\ pc = "reading"
    /\ reads < MaxReads
    /\ clock + d <= MaxClock
    /\ receivedLength + len <= MaxReceived
    /\ reads' = reads + 1
    /\ receivedLength' = Accumulate(receivedLength, len)
    /\ clock' = clock + d
    /\ IF ShouldUpdate(clock', lastUpdate)
       THEN /\ OnProgress(LoopSample(receivedLength', contentLength, clock', startTime),
                          "loop", receivedLength')
            /\ lastUpdate' = clock'
            /\ loopAt' = <<loopAt[2], clock'>>
       ELSE UNCHANGED <<sampleVars, lastUpdate, loopAt>>
    /\ UNCHANGED <<currentConfig, pc, engine, args, requests, response, contentLength,
                   startTime, mockVars, result, failure>>
    /\ UNCHANGED <<catalogVars, infoVars, appVars>>

\* reader.read() returns done: the terminal sample, then the promise resolves
ReadDone ==
    /\ pc = "reading"
    /\ OnProgress(FinalSample, "final", receivedLength)
    /\ result' = [size |-> receivedLength, type |-> ""]
    /\ pc' = "completed"
    /\ UNCHANGED <<currentConfig, engine, args, requests, realVars, mockVars, loopAt,
                   failure>>
    /\ UNCHANGED <<catalogVars, infoVars, appVars>>

\* reader.read() rejects: the catch block decides what the promise rejects with
ReadRejects(message) ==
    /\ pc = "reading"
    /\ Reject(CatchDownload(TypeError(message)))
    /\ UNCHANGED <<currentConfig, engine, args, requests, realVars, mockVars, sampleVars,
                   loopAt, result>>
    /\ UNCHANGED <<catalogVars, infoVars, appVars>>

(***************************************************************************)
(* downloadVideoMock                                                       *)
(***************************************************************************)
\* one firing of the setInterval callback
MockTick(increment, speedVal) ==
    /\ pc = "ticking"
    /\ interval
    /\ progress' = progress + increment
    /\ LET stats == MockStats(progress', increment, speedVal)
       IN  IF MockFinished(progress')
           THEN /\ interval' = FALSE
                /\ OnProgress(MockFinalSample(stats), "tick", 0)
                /\ pc' = "resolving"
           ELSE /\ OnProgress(stats, "tick", 0)
                /\ UNCHANGED <<interval, pc>>
    /\ UNCHANGED <<currentConfig, engine, args, requests, realVars, loopAt, result,
                   failure>>
    /\ UNCHANGED <<catalogVars, infoVars, appVars>>

\* the 500 ms timeout set by the last tick fires: the promise resolves
MockResolve ==
    /\ pc = "resolving"
    /\ result' = [size |-> 23, type |-> MockBlobType(args.convertToMp3, args.playlistCombine)]
    /\ pc' = "completed"
    /\ UNCHANGED <<currentConfig, engine, args, requests, realVars, mockVars, sampleVars,
                   loopAt, failure>>
    /\ UNCHANGED <<catalogVars, infoVars, appVars>>

(***************************************************************************)
(* The specification.                                                      *)
(***************************************************************************)
Arguments ==
    [fileSize : FileSizes, convertToMp3 : BOOLEAN, playlistCombine : CombineModes]

Next ==
    \/ \E partial \in Partials : updateApiConfig(partial)
    \/ \E a \in Arguments : simulateDownload(a)
    \/ \E m \in FetchFailureMessages : FetchRejects(m)
    \/ \E st \in ErrorStatuses, b \in ErrorBodies : ResponseNotOk(st, b)
    \/ \E h \in ContentLengthHeaders : ResponseNoBody(h)
    \/ \E h \in ContentLengthHeaders, d \in Deltas : ResponseOpened(h, d)
    \/ \E len \in ChunkSizes, d \in Deltas : ReadChunk(len, d)
    \/ ReadDone
    \/ \E m \in StreamFailureMessages : ReadRejects(m)
    \/ \E inc \in Increments, sv \in SpeedVals : MockTick(inc, sv)
    \/ MockResolve

Spec == Init /\ [][Next]_vars

\* A slow connection: a read() that takes more than a second.  The sizes are the
\* ones whose products with the elapsed milliseconds stay within 32 bits.
SlowDeltas == {150, 1060}
SlowHeaders == {<<>>, <<"0">>}
SlowArguments == {a \in Arguments : a.fileSize # <<5000000>>}

NextSlow ==
    \/ \E partial \in Partials : updateApiConfig(partial)
    \/ \E a \in SlowArguments : simulateDownload(a)
    \/ \E m \in FetchFailureMessages : FetchRejects(m)
    \/ \E st \in ErrorStatuses, b \in ErrorBodies : ResponseNotOk(st, b)
    \/ \E h \in SlowHeaders : ResponseNoBody(h)
    \/ \E h \in SlowHeaders : ResponseOpened(h, 0)
    \/ \E len \in ChunkSizes, d \in SlowDeltas : ReadChunk(len, d)
    \/ ReadDone
    \/ \E m \in StreamFailureMessages : ReadRejects(m)
    \/ \E inc \in Increments, sv \in SpeedVals : MockTick(inc, sv)
    \/ MockResolve

SpecSlow == Init /\ [][NextSlow]_vars

\* the timers of the simulated engine fire: setInterval keeps ticking while armed,
\* and the 500 ms timeout runs
FairSpec == Spec /\ WF_vars(\E inc \in Increments, sv \in SpeedVals : MockTick(inc, sv))
                 /\ WF_vars(MockResolve)

TypeOK ==
    /\ pc \in {"idle", "fetching", "reading", "ticking", "resolving", "completed", "failed"}
    /\ engine \in {"none", "real", "mock"}
    /\ Len(requests) <= 1
    /\ receivedLength \in 0..MaxReceived
    /\ clock \in 0..MaxClock
    /\ hundreds \in 0..1

(***************************************************************************)
(* The format catalog (src/App.tsx, src/components/FormatSelector.tsx).    *)
(*                                                                         *)
(* A format id is one token.  A resolution label is a sequence of          *)
(* characters.  An optional number (filesize, filesize_approx, tbr) is <<>> *)
(* when absent and <<n>> when present.  An optional codec is "undefined"   *)
(* when absent.                                                            *)
(***************************************************************************)
MaxFormats == 3

Chars(label) ==
    CASE label = "1080p" -> <<"1", "0", "8", "0", "p">>
      [] label = "720P" -> <<"7", "2", "0", "P">>
      [] label = "1920x1080" -> <<"1", "9", "2", "0", "x", "1", "0", "8", "0">>
      [] label = "1080x1350" -> <<"1", "0", "8", "0", "x", "1", "3", "5", "0">>
      [] label = "2560x1440" -> <<"2", "5", "6", "0", "x", "1", "4", "4", "0">>
      [] label = "audio only" -> <<"a", "u", "d", "i", "o", " ", "o", "n", "l", "y">>

Digits == {"0", "1", "2", "3", "4", "5", "6", "7", "8", "9"}

\* String.prototype.toLowerCase, on the letters the labels use
LowerChar(c) ==
    CASE c = "P" -> "p" [] c = "X" -> "x" [] c = "M" -> "m" [] c = "T" -> "t" [] OTHER -> c
ToLowerCase(s) == [i \in DOMAIN s |-> LowerChar(s[i])]

\* s[from..from+n-1] are n digits
DigitsAt(s, from, n) ==
    /\ from >= 1
    /\ from + n - 1 <= Len(s)
    /\ \A k \in from..(from + n - 1) : s[k] \in Digits

\* /(\d{3,4})p/ matches at position i: the length of the digit group, or 0
MatchPAt(s, i) ==
    IF DigitsAt(s, i, 4) /\ i + 4 <= Len(s) /\ s[i + 4] = "p" THEN 4
    ELSE IF DigitsAt(s, i, 3) /\ i + 3 <= Len(s) /\ s[i + 3] = "p" THEN 3
    ELSE 0

\* /x(\d{3,4})/ matches at position i: the length of the digit group, or 0
MatchXAt(s, i) ==
    IF i <= Len(s) /\ s[i] = "x"
    THEN IF DigitsAt(s, i + 1, 4) THEN 4 ELSE IF DigitsAt(s, i + 1, 3) THEN 3 ELSE 0
    ELSE 0

\* parseHeight (App.tsx) and getHeight (FormatSelector.tsx): the regular expressions
\* are searched from the left on the lower-cased label
parseHeight(format) ==
    LET res == ToLowerCase(format.resolution)
        ps == {i \in DOMAIN res : MatchPAt(res, i) > 0}
        xs == {i \in DOMAIN res : MatchXAt(res, i) > 0}
    IN  IF ps # {}
        THEN LET i == CHOOSE j \in ps : \A k \in ps : j <= k
             IN  ParseInt10(SubSeq(res, i, i + MatchPAt(res, i) - 1))
        ELSE IF xs # {}
        THEN LET i == CHOOSE j \in xs : \A k \in xs : j <= k
             IN  ParseInt10(SubSeq(res, i + 1, i + MatchXAt(res, i)))
        ELSE 0

\* getHeight: the same two expressions with the flag i, which is a match on the
\* lower-cased label
getHeight(format) == parseHeight(format)

\* f.acodec && f.acodec !== 'none'
hasAudio(format) == format.acodec # "undefined" /\ format.acodec # "none"

\* !f.vcodec || f.vcodec === 'none'
NoVideoCodec(format) == format.vcodec = "undefined" \/ format.vcodec = "none"

\* a.filesize ?? a.filesize_approx ?? 0
SizeOf(format) ==
    IF format.filesize # <<>> THEN format.filesize[1]
    ELSE IF format.filesize_approx # <<>> THEN format.filesize_approx[1]
    ELSE 0

\* a.tbr ?? 0
BitrateOf(format) == IF format.tbr # <<>> THEN format.tbr[1] ELSE 0

\* faulty variant of CompareRecommended: size before audio
CompareRecommended_SizeFirst(a, b) ==
    LET heightDiff == parseHeight(b) - parseHeight(a)
        audioScoreA == IF hasAudio(a) THEN 1 ELSE 0
        audioScoreB == IF hasAudio(b) THEN 1 ELSE 0
    IN  IF heightDiff # 0 THEN heightDiff
        ELSE IF SizeOf(b) # SizeOf(a) THEN SizeOf(b) - SizeOf(a)
        ELSE audioScoreB - audioScoreA

\* faulty variant of CompareSize: smallest first
CompareSize_Ascending(a, b) == SizeOf(a) - SizeOf(b)

\* faulty variant of CompareBestAudio: the bitrate is ignored
CompareBestAudio_SizeOnly(a, b) == SizeOf(b) - SizeOf(a)

\* the comparators handed to Array.prototype.sort: negative puts a first
CompareRecommended(a, b) ==
    LET heightDiff == parseHeight(b) - parseHeight(a)
        audioScoreA == IF hasAudio(a) THEN 1 ELSE 0
        audioScoreB == IF hasAudio(b) THEN 1 ELSE 0
    IN  IF heightDiff # 0 THEN heightDiff
        ELSE IF audioScoreA # audioScoreB THEN audioScoreB - audioScoreA
        ELSE SizeOf(b) - SizeOf(a)

CompareSize(a, b) == SizeOf(b) - SizeOf(a)

CompareBestAudio(a, b) ==
    IF SizeOf(a) # SizeOf(b) THEN SizeOf(b) - SizeOf(a)
    ELSE BitrateOf(b) - BitrateOf(a)

CompareTier(a, b) ==
    IF hasAudio(a) # hasAudio(b) THEN (IF hasAudio(b) THEN 1 ELSE -1)
    ELSE IF getHeight(b) - getHeight(a) # 0 THEN getHeight(b) - getHeight(a)
    ELSE SizeOf(b) - SizeOf(a)

CompareMkv(a, b) ==
    IF getHeight(b) - getHeight(a) # 0 THEN getHeight(b) - getHeight(a)
    ELSE SizeOf(b) - SizeOf(a)

Compare(cmp, a, b) ==
    CASE cmp = "recommended" -> CompareRecommended(a, b)
      [] cmp = "size" -> CompareSize(a, b)
      [] cmp = "bestAudio" -> CompareBestAudio(a, b)
      [] cmp = "tier" -> CompareTier(a, b)
      [] cmp = "mkv" -> CompareMkv(a, b)

\* Array.prototype.sort is stable: x goes before the first element it must precede
RECURSIVE InsertSorted(_, _, _)
InsertSorted(x, sorted, cmp) ==
    IF sorted = <<>> THEN <<x>>
    ELSE IF Compare(cmp, x, Head(sorted)) < 0 THEN <<x>> \o sorted
    ELSE <<Head(sorted)>> \o InsertSorted(x, Tail(sorted), cmp)

RECURSIVE SortInto(_, _, _)
SortInto(seq, sorted, cmp) ==
    IF seq = <<>> THEN sorted
    ELSE SortInto(Tail(seq), InsertSorted(Head(seq), sorted, cmp), cmp)

SortBy(seq, cmp) == SortInto(seq, <<>>, cmp)

\* f.ext.toLowerCase(), on the extensions of the pool
LowerExt(ext) == IF ext = "MKV" THEN "mkv" ELSE ext

IsVideo(f) == f.type = "video"
IsAudio(f) == f.type = "audio"
IsAudioCandidate(f) == (IsAudio(f) \/ NoVideoCodec(f)) /\ hasAudio(f)

\* Array.prototype.filter, for each predicate the code filters with
RECURSIVE Filter(_, _)
Filter(seq, pred) ==
    IF seq = <<>> THEN <<>>
    ELSE LET f == Head(seq)
             keep == CASE pred = "video" -> IsVideo(f)
                       [] pred = "audio" -> IsAudio(f)
                       [] pred = "audioCandidate" -> IsAudioCandidate(f)
                       [] pred = "mkv" -> IsVideo(f) /\ LowerExt(f.ext) = "mkv"
         IN  (IF keep THEN <<f>> ELSE <<>>) \o Filter(Tail(seq), pred)

\* the first element of an array as an optional value: <<>> or <<f>>
First(seq) == IF seq = <<>> THEN <<>> ELSE <<Head(seq)>>

\* findRecommendedFormat: <<>> is null, <<id>> a format id
findRecommendedFormat(fs) ==
    IF Len(fs) = 0 THEN <<>>
    ELSE LET videos == Filter(fs, "video")
         IN  IF Len(videos) > 0
             THEN <<SortBy(videos, "recommended")[1].format_id>>
             ELSE LET audioFormats == SortBy(Filter(fs, "audio"), "size")
                  IN  IF Len(audioFormats) > 0 THEN <<audioFormats[1].format_id>>
                      ELSE <<fs[1].format_id>>

\* pickBestAudioFormat: <<>> is undefined, <<f>> a format
pickBestAudioFormat(fs) == First(SortBy(Filter(fs, "audioCandidate"), "bestAudio"))

\* formats.find(f => f.format_id === selectedFormatId)
FindFormat(fs, id) ==
    LET hits == {i \in DOMAIN fs : fs[i].format_id = id}
    IN  IF hits = {} THEN <<>> ELSE <<fs[CHOOSE i \in hits : \A j \in hits : i <= j]>>

\* faulty variant of Joined: the audio id first
Joined_Swapped(a, b) == <<b, "+", a>>

\* `${a}+${b}`
Joined(a, b) == <<a, "+", b>>

\* buildFormatString without convertToMp3, for a selected format of the list
MergedRequest(fs, selected) ==
    IF hasAudio(selected) THEN <<selected.format_id>>
    ELSE LET bestAudio == pickBestAudioFormat(fs)
         IN  IF bestAudio # <<>> THEN Joined(selected.format_id, bestAudio[1].format_id)
             ELSE Joined(selected.format_id, "bestaudio")

\* faulty variant of AudioRequest: the conversion is ignored
AudioRequest_Merged(fs, selected) == MergedRequest(fs, selected)

\* faulty variant of AudioRequest: the best audio format even for an audio selection
AudioRequest_AlwaysBest(fs, selected) ==
    LET bestAudio == pickBestAudioFormat(fs)
    IN  IF bestAudio # <<>> THEN <<bestAudio[1].format_id>> ELSE <<"bestaudio">>

\* buildFormatString with convertToMp3, for a selected format of the list
AudioRequest(fs, selected) ==
    IF IsAudio(selected) /\ hasAudio(selected) THEN <<selected.format_id>>
    ELSE LET bestAudio == pickBestAudioFormat(fs)
         IN  IF bestAudio # <<>> THEN <<bestAudio[1].format_id>> ELSE <<"bestaudio">>

\* buildFormatString: the format expression, as tokens
buildFormatString(fs, selectedFormatId, convertToMp3) ==
    LET found == FindFormat(fs, selectedFormatId)
    IN  IF found = <<>> THEN <<selectedFormatId>>
        ELSE IF convertToMp3 THEN AudioRequest(fs, found[1])
        ELSE MergedRequest(fs, found[1])

\* minHeight && h < minHeight, maxHeight && h >= maxHeight
InTier(f, minHeight, maxHeight) ==
    /\ ~(minHeight # 0 /\ getHeight(f) < minHeight)
    /\ ~(maxHeight # 0 /\ getHeight(f) >= maxHeight)

RECURSIVE FilterTier(_, _, _)
FilterTier(seq, minHeight, maxHeight) ==
    IF seq = <<>> THEN <<>>
    ELSE (IF InTier(Head(seq), minHeight, maxHeight) THEN <<Head(seq)>> ELSE <<>>)
         \o FilterTier(Tail(seq), minHeight, maxHeight)

\* pickVideoByHeight: <<>> is undefined, <<f>> a format
pickVideoByHeight(fs, minHeight, maxHeight) ==
    First(SortBy(FilterTier(Filter(fs, "video"), minHeight, maxHeight), "tier"))

pickRawMkv(fs) == First(SortBy(Filter(fs, "mkv"), "mkv"))

\* the mapping of the quality presets to formats
PresetMapping(fs) ==
    [video_1440p |-> pickVideoByHeight(fs, 1350, 2000),
     video_1080p |-> pickVideoByHeight(fs, 1000, 1400),
     video_720p |-> pickVideoByHeight(fs, 700, 1000),
     raw_mkv |-> pickRawMkv(fs)]

(***************************************************************************)
(* The formats the backend reports, and their normalisation                *)
(* (fetchVideoInfoReal).  In a reported format an absent resolution is     *)
(* <<>> and an absent width or height is 0.                                *)
(***************************************************************************)
DigitChar(d) ==
    CASE d = 0 -> "0" [] d = 1 -> "1" [] d = 2 -> "2" [] d = 3 -> "3" [] d = 4 -> "4"
      [] d = 5 -> "5" [] d = 6 -> "6" [] d = 7 -> "7" [] d = 8 -> "8" [] d = 9 -> "9"

\* a number in a template literal
RECURSIVE ToDigits(_)
ToDigits(n) == IF n < 10 THEN <<DigitChar(n)>> ELSE ToDigits(n \div 10) \o <<DigitChar(n % 10)>>

\* (f.vcodec === 'none' || !f.vcodec) && f.acodec !== 'none' ? AUDIO : VIDEO
DeriveType(vcodec, acodec) ==
    IF (vcodec = "none" \/ vcodec = "undefined") /\ acodec # "none" THEN "audio" ELSE "video"

\* f.resolution || (f.width && f.height ? `${f.width}x${f.height}` : 'audio only')
DeriveResolution(f) ==
    IF f.resolution # <<>> THEN f.resolution
    ELSE IF f.width # 0 /\ f.height # 0 THEN ToDigits(f.width) \o <<"x">> \o ToDigits(f.height)
    ELSE Chars("audio only")

NormalizeFormat(f) ==
    [format_id |-> f.format_id,
     ext |-> f.ext,
     resolution |-> DeriveResolution(f),
     type |-> DeriveType(f.vcodec, f.acodec),
     filesize |-> f.filesize,
     filesize_approx |-> f.filesize_approx,
     vcodec |-> f.vcodec,
     acodec |-> f.acodec,
     tbr |-> f.tbr]

\* formats.map(normalise).filter(f => f.format_id)
RECURSIVE NormalizeFormats(_)
NormalizeFormats(raw) ==
    IF raw = <<>> THEN <<>>
    ELSE (IF Head(raw).format_id # "" THEN <<NormalizeFormat(Head(raw))>> ELSE <<>>)
         \o NormalizeFormats(Tail(raw))

Reported(id, ext, resolution, width, height, vcodec, acodec, filesize, approx, tbr) ==
    [format_id |-> id, ext |-> ext, resolution |-> resolution, width |-> width,
     height |-> height, vcodec |-> vcodec, acodec |-> acodec, filesize |-> filesize,
     filesize_approx |-> approx, tbr |-> tbr]

\* the formats a backend answer is made of
ReportedFormats ==
    << Reported("v1080", "mp4", Chars("1080p"), 1920, 1080, "avc1", "none", <<100>>, <<>>, <<>>),
       Reported("a1", "m4a", <<>>, 0, 0, "none", "aac", <<1000>>, <<>>, <<128>>),
       Reported("v1080a", "mp4", <<>>, 1920, 1080, "avc1", "aac", <<80>>, <<>>, <<>>),
       Reported("v1350", "mp4", Chars("1080x1350"), 1080, 1350, "avc1", "aac", <<50>>, <<>>, <<>>),
       Reported("v1440", "webm", Chars("2560x1440"), 2560, 1440, "vp9", "none", <<>>, <<300>>, <<>>),
       Reported("v720", "mp4", Chars("720P"), 0, 0, "avc1", "aac", <<0>>, <<500>>, <<>>),
       Reported("a0", "webm", <<>>, 0, 0, "undefined", "opus", <<0>>, <<2000>>, <<160>>),
       Reported("a2", "m4a", <<>>, 0, 0, "none", "aac", <<1000>>, <<>>, <<256>>),
       Reported("mkv1080", "MKV", Chars("1080p"), 0, 0, "avc1", "none", <<200>>, <<>>, <<>>),
       Reported("mute", "bin", <<>>, 0, 0, "none", "undefined", <<3000>>, <<>>, <<>>),
       Reported("sb", "mhtml", <<>>, 0, 0, "none", "none", <<>>, <<>>, <<>>) >>

FormatIds == {ReportedFormats[i].format_id : i \in DOMAIN ReportedFormats}

\* an id that no reported format carries
StaleId == "v999"

\* the members of a set of positions, in increasing order
RECURSIVE Ascending(_)
Ascending(S) ==
    IF S = {} THEN <<>>
    ELSE LET m == CHOOSE x \in S : \A y \in S : x <= y
         IN  <<m>> \o Ascending(S \ {m})

Reverse(seq) == [i \in DOMAIN seq |-> seq[Len(seq) + 1 - i]]

\* the lists of at most MaxFormats different reported formats, in the order of
\* ReportedFormats or in the opposite order
Selections ==
    LET few == {S \in SUBSET (DOMAIN ReportedFormats) : Cardinality(S) <= MaxFormats}
    IN  {Ascending(S) : S \in few} \cup {Reverse(Ascending(S)) : S \in few}

Catalogs == {NormalizeFormats([i \in DOMAIN sel |-> ReportedFormats[sel[i]]]) : sel \in Selections}

\* the application once the formats of a media item are on display
InitFormats ==
    /\ InitEngines
    /\ formats \in Catalogs
    /\ call = NoCall
    /\ returned = <<>>
    /\ InitInfo
    /\ InitApp

Called(fn, selectedFormatId, convertToMp3) ==
    [fn |-> fn, selectedFormatId |-> selectedFormatId, convertToMp3 |-> convertToMp3]

engineVars == <<currentConfig, pc, engine, args, requests, response, contentLength,
                receivedLength, startTime, lastUpdate, reads, clock, progress, interval,
                lastSample, firstKind, lastKind, lastBytes, hundreds, loopAt, result, failure>>

\* findRecommendedFormat(info.formats), when the formats are shown
Recommend ==
    /\ call' = Called("findRecommendedFormat", "", FALSE)
    /\ returned' = findRecommendedFormat(formats)
    /\ UNCHANGED <<formats, engineVars, infoVars, appVars>>

\* pickBestAudioFormat(formats)
PickBestAudio ==
    /\ call' = Called("pickBestAudioFormat", "", FALSE)
    /\ returned' = pickBestAudioFormat(formats)
    /\ UNCHANGED <<formats, engineVars, infoVars, appVars>>

\* buildFormatString(formats, selectedFormat, convertToMp3), when a download starts
BuildRequest(selectedFormatId, convertToMp3) ==
    /\ call' = Called("buildFormatString", selectedFormatId, convertToMp3)
    /\ returned' = buildFormatString(formats, selectedFormatId, convertToMp3)
    /\ UNCHANGED <<formats, engineVars, infoVars, appVars>>

\* the options of the quality-preset view, recomputed for the formats
ResolveOptions ==
    /\ call' = Called("options", "", FALSE)
    /\ returned' = PresetMapping(formats)
    /\ UNCHANGED <<formats, engineVars, infoVars, appVars>>

\* the ids the selection can hold for the formats on display
SelectableIds == {formats[i].format_id : i \in DOMAIN formats} \cup {StaleId}

NextFormats ==
    \/ Recommend
    \/ PickBestAudio
    \/ \E id \in SelectableIds, convert \in BOOLEAN : BuildRequest(id, convert)
    \/ ResolveOptions

SpecFormats == InitFormats /\ [][NextFormats]_vars

(***************************************************************************)
(* fetchVideoInfo: the metadata fetch.  A URL is a sequence of pieces, cut  *)
(* so that a piece contains 'facebook.com' or 'fb.watch' only if it is      *)
(* that text up to the case of its letters.                                *)
(***************************************************************************)
InfoUrls ==
    { <<"https://", "www.", "youtube.com", "/watch?v=1">>,
      <<"https://", "www.", "Facebook.com", "/video/1">>,
      <<"https://", "fb.watch", "/abc">>,
      <<"https://", "example.com", "/?ref=", "facebook.com">>,
      <<"not", "a", "url">> }

InfoStatuses == {"404", "500"}

\* what res.json() finds in the body of a 2xx answer
NoPayload == [kind |-> "none", formats |-> <<>>, videos |-> <<>>]
Payloads ==
    { [kind |-> "video", formats |-> <<ReportedFormats[1], ReportedFormats[2]>>, videos |-> <<>>],
      [kind |-> "video",
       formats |-> <<ReportedFormats[11], [ReportedFormats[3] EXCEPT !.format_id = ""],
                     ReportedFormats[10]>>,
       videos |-> <<>>],
      [kind |-> "video", formats |-> <<>>, videos |-> <<>>],
      [kind |-> "playlist", formats |-> <<>>,
       videos |-> << [formats |-> <<ReportedFormats[7], ReportedFormats[9]>>],
                     [formats |-> <<>>] >>],
      [kind |-> "null", formats |-> <<>>, videos |-> <<>>],
      [kind |-> "invalid", formats |-> <<>>, videos |-> <<>>] }

\* Math.random() of the four simulated formats: 0 for the least value and 1 for
\* the greatest value Math.floor can give
MockRandoms == [1..4 -> {0, 1}]

\* url.toLowerCase(), on the pieces of the URLs
LowerPiece(piece) == IF piece = "Facebook.com" THEN "facebook.com" ELSE piece
LowerUrl(url) == [i \in DOMAIN url |-> LowerPiece(url[i])]

\* urlLower.includes('facebook.com') || urlLower.includes('fb.watch')
IsFacebookUrl(url) == Includes(LowerUrl(url), "facebook.com") \/ Includes(LowerUrl(url), "fb.watch")

\* new URL(url) does not throw
IsValidUrl(url) == url # <<>> /\ url[1] \in {"https://", "http://"}

IncludesPhrase(message, phrase) ==
    \E i \in 1..(Len(message) - Len(phrase) + 1) :
        SubSeq(message, i, i + Len(phrase) - 1) = phrase

InfoCannotReachMessage ==
    <<"Cannot", "reach", "backend.", "Please", "run", "'python server.py'", "in", "your",
      "terminal.">>
TimedOutMessage ==
    <<"Request", "timed", "out.", "The", "server", "took", "too", "long", "to", "respond.">>
FacebookMessage ==
    <<"Facebook", "links", "often", "require", "login", "cookies.", "Provide", "a",
      "cookies.txt", "to", "the", "backend", "or", "ensure", "the", "video", "is", "public.">>
InvalidUrlMessage == <<"Please", "enter", "a", "valid", "URL", "(e.g., https://...)">>
NullPayloadMessage == <<"Cannot", "read", "properties", "of", "null", "(reading '_type')">>
InvalidJsonMessage == <<"Unexpected", "token", "<", "in", "JSON", "at", "position", "0">>

AbortError == [name |-> "AbortError", message |-> <<"The", "user", "aborted", "a", "request.">>]
SyntaxError(message) == [name |-> "SyntaxError", message |-> message]

\* `Server error: ${res.status}`, replaced by errorJson.detail when res.json()
\* succeeds and the detail is truthy
InfoErrorMessage(status, body) ==
    IF body.kind = "json" /\ body.detail # <<>> THEN body.detail
    ELSE <<"Server", "error:", status>>

\* the catch block of fetchVideoInfoReal: the error the caller gets
CatchInfo(error, url) ==
    IF error.name = "TypeError"
         /\ (Includes(error.message, "fetch")
               \/ IncludesPhrase(error.message, <<"Failed", "to", "fetch">>))
    THEN PlainError(InfoCannotReachMessage)
    ELSE IF error.name = "AbortError" THEN PlainError(TimedOutMessage)
    ELSE IF IsFacebookUrl(url) THEN PlainError(FacebookMessage)
    ELSE error

\* the VideoInfo or PlaylistInfo built from the answer
NormalizeInfo(data) ==
    IF data.kind = "playlist"
    THEN [kind |-> "playlist", formats |-> <<>>,
          videos |-> [i \in DOMAIN data.videos |->
                         [formats |-> NormalizeFormats(data.videos[i].formats)]]]
    ELSE [kind |-> "video", formats |-> NormalizeFormats(data.formats), videos |-> <<>>]

MockFormat(id, ext, resolution, type, filesize, vcodec, acodec) ==
    [format_id |-> id, ext |-> ext, resolution |-> resolution, type |-> type,
     filesize |-> <<filesize>>, filesize_approx |-> <<>>, vcodec |-> vcodec,
     acodec |-> acodec, tbr |-> <<>>]

generateMockFormats(random) ==
    << MockFormat("premium_4k", "webm", <<"3", "8", "4", "0", "x", "2", "1", "6", "0">>,
                  "video", 850000000 + random[1] * 99999999, "vp9", "opus"),
       MockFormat("hd_1080p", "mp4", Chars("1920x1080"), "video",
                  450000000 + random[2] * 49999999,
                  "avc1", "mp4a"),
       MockFormat("hd_720p", "mp4", <<"1", "2", "8", "0", "x", "7", "2", "0">>,
                  "video", 120000000 + random[3] * 19999999, "avc1", "mp4a"),
       MockFormat("audio_best", "m4a", Chars("audio only"), "audio",
                  15000000 + random[4] * 4999999,
                  "none", "aac") >>

\* the metadata fetch leaves the catalog on display and the download engines alone
InfoFrame == UNCHANGED <<currentConfig, pc, engine, args, requests, realVars, mockVars,
                         sampleVars, loopAt, result, failure, catalogVars, appVars>>

\* the promise of fetchVideoInfo rejects with the error
InfoReject(error) ==
    /\ infoPc' = "failed"
    /\ infoFailure' = error
    /\ UNCHANGED infoResult

\* fetchVideoInfo(url): the delegate, up to the first await of the engine it chose.
\* fetchVideoInfoReal arms the 25 s timer and calls fetch(); fetchVideoInfoMock arms
\* its 1.2 s timer.
fetchVideoInfo(url) ==
    /\ infoPc = "idle"
    /\ infoUrl' = url
    /\ IF currentConfig.useServer
       THEN infoEngine' = "real" /\ infoTimer' = TRUE /\ infoPc' = "fetching"
       ELSE infoEngine' = "mock" /\ infoTimer' = FALSE /\ infoPc' = "waiting"
    /\ UNCHANGED <<infoAborted, infoResponse, infoResult, infoFailure>>
    /\ InfoFrame

\* fetch() rejects: no connection was made.  clearTimeout is not reached.
InfoFetchRejects(message) ==
    /\ infoPc = "fetching"
    /\ InfoReject(CatchInfo(TypeError(message), infoUrl))
    /\ UNCHANGED <<infoUrl, infoEngine, infoAborted, infoTimer, infoResponse>>
    /\ InfoFrame

\* the 25 s timer fires while fetch() is pending: controller.abort() rejects it
InfoTimeout ==
    /\ infoPc = "fetching"
    /\ infoTimer
    /\ infoTimer' = FALSE
    /\ infoAborted' = TRUE
    /\ InfoReject(CatchInfo(AbortError, infoUrl))
    /\ UNCHANGED <<infoUrl, infoEngine, infoResponse>>
    /\ InfoFrame

\* the 25 s timer fires after fetch() was rejected: controller.abort() finds
\* nothing to abort
InfoTimerLate ==
    /\ infoPc = "failed"
    /\ infoTimer
    /\ infoTimer' = FALSE
    /\ UNCHANGED <<infoPc, infoUrl, infoEngine, infoAborted, infoResponse, infoResult,
                   infoFailure>>
    /\ InfoFrame

\* fetch() resolves with the status line and the headers; clearTimeout(id)
InfoResponseArrives(ok, status) ==
    /\ infoPc = "fetching"
    /\ infoTimer' = FALSE
    /\ infoResponse' = [NoInfoResponse EXCEPT !.ok = ok, !.status = status]
    /\ infoPc' = "reading"
    /\ UNCHANGED <<infoUrl, infoEngine, infoAborted, infoResult, infoFailure>>
    /\ InfoFrame

\* !res.ok: the body is read for a detail, and the error thrown is caught
InfoErrorBody(body) ==
    /\ infoPc = "reading"
    /\ ~infoResponse.ok
    /\ infoResponse' = [infoResponse EXCEPT !.body = body]
    /\ InfoReject(CatchInfo(PlainError(InfoErrorMessage(infoResponse.status, body)), infoUrl))
    /\ UNCHANGED <<infoUrl, infoEngine, infoAborted, infoTimer>>
    /\ InfoFrame

\* res.ok: res.json() and the normalisation
InfoData(data) ==
    /\ infoPc = "reading"
    /\ infoResponse.ok
    /\ CASE data.kind = "invalid" ->
              InfoReject(CatchInfo(SyntaxError(InvalidJsonMessage), infoUrl))
         [] data.kind = "null" ->
              InfoReject(CatchInfo(TypeError(NullPayloadMessage), infoUrl))
         [] OTHER ->
              /\ infoPc' = "done"
              /\ infoResult' = NormalizeInfo(data)
              /\ UNCHANGED infoFailure
    /\ UNCHANGED <<infoUrl, infoEngine, infoAborted, infoTimer, infoResponse>>
    /\ InfoFrame

\* the 1.2 s timer of fetchVideoInfoMock fires
InfoMockTimer(random) ==
    /\ infoPc = "waiting"
    /\ IF IsValidUrl(infoUrl)
       THEN /\ infoPc' = "done"
            /\ infoResult' = [kind |-> "video", formats |-> generateMockFormats(random),
                              videos |-> <<>>]
            /\ UNCHANGED infoFailure
       ELSE InfoReject(PlainError(InvalidUrlMessage))
    /\ UNCHANGED <<infoUrl, infoEngine, infoAborted, infoTimer, infoResponse>>
    /\ InfoFrame

NextInfo ==
    \/ \E partial \in Partials : updateApiConfig(partial)
    \/ \E url \in InfoUrls : fetchVideoInfo(url)
    \/ \E message \in FetchFailureMessages : InfoFetchRejects(message)
    \/ InfoTimeout
    \/ InfoTimerLate
    \/ \E status \in InfoStatuses : InfoResponseArrives(FALSE, status)
    \/ InfoResponseArrives(TRUE, "200")
    \/ \E body \in ErrorBodies : InfoErrorBody(body)
    \/ \E data \in Payloads : InfoData(data)
    \/ \E random \in MockRandoms : InfoMockTimer(random)

SpecInfo == Init /\ [][NextInfo]_vars

\* the timers of the metadata fetch fire when they are armed; the backend is under
\* no obligation to answer or to finish a body
FairSpecInfo ==
    /\ SpecInfo
    /\ WF_vars(InfoTimeout)
    /\ WF_vars(InfoTimerLate)
    /\ WF_vars(\E random \in MockRandoms : InfoMockTimer(random))

(***************************************************************************)
(* formatFilename (src/App.tsx).  A string is a sequence of characters; an  *)
(* absent or empty string is <<>>.  "TAB" is the tabulator U+0009, "DEL"    *)
(* the character U+007F and "NBSP" the no-break space U+00A0.               *)
(***************************************************************************)
\* [\\/*?:"<>|]
DisallowedChars == {"\\", "/", "*", "?", ":", "\"", "<", ">", "|"}
\* [\u0000-\u001F], on the characters in use
C0Chars == {"TAB"}
\* \s and the characters trim() strips, on the characters in use
WhiteChars == {" ", "TAB", "NBSP"}

RECURSIVE TrimStart(_)
TrimStart(str) ==
    IF str # <<>> /\ Head(str) \in WhiteChars THEN TrimStart(Tail(str)) ELSE str

RECURSIVE TrimEnd(_)
TrimEnd(str) ==
    IF str # <<>> /\ str[Len(str)] \in WhiteChars
    THEN TrimEnd(SubSeq(str, 1, Len(str) - 1)) ELSE str

\* String.prototype.trim
Trim(str) == TrimEnd(TrimStart(str))

\* str.replace(/[...]/g, '')
RECURSIVE Without(_, _)
Without(str, chars) ==
    IF str = <<>> THEN <<>>
    ELSE (IF Head(str) \in chars THEN <<>> ELSE <<Head(str)>>) \o Without(Tail(str), chars)

\* str.replace(/\s+/g, ' ')
RECURSIVE CollapseSpace(_)
CollapseSpace(str) ==
    IF str = <<>> THEN <<>>
    ELSE IF Head(str) \in WhiteChars THEN <<" ">> \o CollapseSpace(TrimStart(str))
    ELSE <<Head(str)>> \o CollapseSpace(Tail(str))

\* the pattern matches at the start of str, letters compared without case
StartsWithI(str, pattern) ==
    /\ Len(str) >= Len(pattern)
    /\ ToLowerCase(SubSeq(str, 1, Len(pattern))) = ToLowerCase(pattern)

\* str.replace(new RegExp(pattern, 'gi'), value): replaced text is not searched again
RECURSIVE ReplaceAll(_, _, _)
ReplaceAll(str, pattern, value) ==
    IF str = <<>> THEN <<>>
    ELSE IF StartsWithI(str, pattern)
    THEN value \o ReplaceAll(SubSeq(str, Len(pattern) + 1, Len(str)), pattern, value)
    ELSE <<Head(str)>> \o ReplaceAll(Tail(str), pattern, value)

\* `{${key}}`
Token(key) == <<"{">> \o key \o <<"}">>

KeyTitle == <<"t", "i", "t", "l", "e">>
KeyUploader == <<"u", "p", "l", "o", "a", "d", "e", "r">>
KeyResolution == <<"r", "e", "s", "o", "l", "u", "t", "i", "o", "n">>
KeyFormat == <<"f", "o", "r", "m", "a", "t">>
KeyId == <<"i", "d">>
KeyExt == <<"e", "x", "t">>

\* a || b on strings
OrElse(a, b) == IF a # <<>> THEN a ELSE b

\* ext.startsWith('.') ? ext.slice(1) : ext
SafeExt(ext) == IF ext # <<>> /\ Head(ext) = "." THEN Tail(ext) ELSE ext

\* Object.entries(replacements), in insertion order
Replacements(info, fallback, ext) ==
    << <<KeyTitle, OrElse(info.title, fallback)>>,
       <<KeyUploader, OrElse(info.uploader, KeyUploader)>>,
       <<KeyResolution, OrElse(info.resolution, <<"b", "e", "s", "t">>)>>,
       <<KeyFormat, OrElse(info.formatId, KeyFormat)>>,
       <<KeyId, OrElse(info.id, KeyId)>>,
       <<KeyExt, SafeExt(ext)>> >>

\* the forEach over the replacements
RECURSIVE Substitute(_, _)
Substitute(name, entries) ==
    IF entries = <<>> THEN name
    ELSE Substitute(ReplaceAll(name, Token(Head(entries)[1]), Head(entries)[2]),
                    Tail(entries))

\* the four replace/trim calls that strip a name
Sanitize(name) == Trim(CollapseSpace(Without(Without(name, DisallowedChars), C0Chars)))

EndsWith(str, suffix) ==
    /\ Len(str) >= Len(suffix)
    /\ SubSeq(str, Len(str) - Len(suffix) + 1, Len(str)) = suffix

\* faulty variant of EndsWithExt: the case of the letters counts
EndsWithExt_CaseSensitive(name, safeExt) == EndsWith(name, <<".">> \o safeExt)

\* name.toLowerCase().endsWith(`.${safeExt.toLowerCase()}`)
EndsWithExt(name, safeExt) == EndsWith(ToLowerCase(name), <<".">> \o ToLowerCase(safeExt))

formatFilename(template, info, fallback, ext) ==
    LET baseTemplate == OrElse(Trim(template), Token(KeyTitle))
        safeExt == SafeExt(ext)
        stripped == Sanitize(Substitute(baseTemplate, Replacements(info, fallback, ext)))
        name == IF stripped = <<>> THEN fallback ELSE stripped
    IN  IF ~EndsWithExt(name, safeExt) THEN name \o <<".">> \o safeExt ELSE name

\* config.filenameTemplate: undefined, with tokens, and without
NameTemplates ==
    { <<>>,
      Token(KeyTitle),
      <<"{", "T", "i", "t", "l", "e", "}", ".", "{", "e", "x", "t", "}">>,
      Token(KeyId) \o <<"-">> \o Token(KeyFormat) \o <<" ">> \o Token(KeyUploader)
          \o <<" ">> \o Token(KeyResolution),
      <<"c", "l", "i", "p">>,
      <<"c", "l", "i", "p", ".", "M", "P", "4">>,
      <<"a", "/", "b", ":", "c">>,
      <<"?", "?">>,
      <<" ", "TAB", "c", " ", "NBSP", "d", " ">> }

NameTitles ==
    { <<>>,
      <<"M", "y", ":", " ", " ", "c", "l", "i", "p">>,
      <<"?">>,
      <<"a", "DEL", "b">>,
      <<"x", ".", "m", "p", "4">> }

\* uploader, resolution, formatId and id of the media, all known or all unknown
NameDetails ==
    { [uploader |-> <<>>, resolution |-> <<>>, formatId |-> <<>>, id |-> <<>>],
      [uploader |-> <<"a", "n", "n">>, resolution |-> Chars("1080p"),
       formatId |-> <<"1", "3", "7">>, id |-> <<"x", "1">>] }

NameFallbacks == { <<"v", "i", "d", "e", "o">>, <<"a", "/", "b">> }

NameExts == { <<"m", "p", "4">>, <<".", "m", "p", "3">>, <<"M", "P", "4">> }

NameInputs ==
    { [template |-> template,
       info |-> [title |-> title, uploader |-> details.uploader,
                 resolution |-> details.resolution, formatId |-> details.formatId,
                 id |-> details.id],
       fallback |-> fallback, ext |-> ext] :
        template \in NameTemplates, title \in NameTitles, details \in NameDetails,
        fallback \in NameFallbacks, ext \in NameExts }

\* the application about to name a file
InitNames ==
    /\ InitEngines
    /\ formats = <<>>
    /\ call = NoCall
    /\ returned = <<>>
    /\ InitInfo
    /\ nameArgs \in NameInputs
    /\ nameResult = <<>>
    /\ InitUi

\* link.download = formatFilename(...)
FormatName ==
    /\ nameResult = <<>>
    /\ nameResult' = <<formatFilename(nameArgs.template, nameArgs.info, nameArgs.fallback,
                                      nameArgs.ext)>>
    /\ UNCHANGED <<nameArgs, uiVars, engineVars, catalogVars, infoVars>>

NextNames == FormatName

SpecNames == InitNames /\ [][NextNames]_vars

(***************************************************************************)
(* The configuration and the two delegates that read it.                   *)
(***************************************************************************)
\* getApiConfig()
getApiConfig == currentConfig

\* the settings a user can save: either engine, two backends, two templates
ConfigPartials ==
    [useServer : {<<>>} \cup {<<b>> : b \in BOOLEAN},
     serverUrl : {<<>>} \cup {<<u>> : u \in ServerUrls \cup {<<"http://localhost:9000", "/">>}},
     filenameTemplate : {<<>>} \cup {<<t>> : t \in FilenameTemplates \cup {"{id}"}}]

\* updates of the configuration and invocations of the two delegates, up to the
\* first await of the engine chosen
NextConfig ==
    \/ \E partial \in ConfigPartials : updateApiConfig(partial)
    \/ \E a \in Arguments : simulateDownload(a)
    \/ \E url \in InfoUrls : fetchVideoInfo(url)

SpecConfig == Init /\ [][NextConfig]_vars

(***************************************************************************)
(* The page (src/App.tsx): the handlers of the form, the playlist card and *)
(* the download button, and the continuations of the calls they await.     *)
(*                                                                         *)
(* The service is seen from the page: a fetchVideoInfo or simulateDownload *)
(* call is in flight until its promise resolves or rejects.  A playlist    *)
(* is its entries of interest, the number of entries it lists (length)     *)
(* and its video_count.  The state updates of one synchronous run of a     *)
(* handler are rendered together.                                          *)
(***************************************************************************)
MaxDownloads == 2

UiUrls == {"P", "V"}

Entry(id, fs) == [id |-> id, formats |-> NormalizeFormats(fs)]

\* the entries a playlist answer can hold: the backend drops entries that have
\* become unavailable
EntryLists ==
    { << Entry("x", <<ReportedFormats[1], ReportedFormats[2]>>),
         Entry("y", <<ReportedFormats[8]>>) >>,
      << Entry("y", <<ReportedFormats[8]>>) >> }

PlaylistSizes == {[length |-> 50, video_count |-> 50],
                  [length |-> 50, video_count |-> 120]}

\* what fetchVideoInfo(url, { maxItems }) can resolve with
Answers(requested, maxItems) ==
    IF requested = "V"
    THEN {[kind |-> "video", requested |-> requested,
           formats |-> NormalizeFormats(<<ReportedFormats[3], ReportedFormats[2]>>),
           videos |-> <<>>, length |-> 0, video_count |-> 0]}
    ELSE {[kind |-> "playlist", requested |-> requested, formats |-> <<>>,
           videos |-> e, length |-> size.length, video_count |-> size.video_count] :
             e \in EntryLists, size \in {sz \in PlaylistSizes : sz.length <= maxItems}}

\* 'videos' in info, 'formats' in info
IsPlaylist(info) == info.kind = "playlist"
IsSingleVideo(info) == info.kind = "video"

\* useEffect(..., [downloadState, selectedFormat]): the onKeyDown listener is
\* registered again, over the state of that render, when one of the two changed
Render ==
    keyView' = IF <<downloadState', selectedFormat'>> # <<downloadState, selectedFormat>>
               THEN [selectedVideoFromPlaylist |-> selectedVideoFromPlaylist',
                     videoInfo |-> videoInfo']
               ELSE keyView

UiFrame == UNCHANGED <<engineVars, catalogVars, infoVars, nameArgs, nameResult>>

\* onChange={(e) => setUrl(e.target.value)}
setUrl(text) ==
    /\ uiUrl' = text
    /\ UNCHANGED <<loading, loadingMorePlaylist, videoInfo, selectedVideoFromPlaylist,
                   selectedFormat, playlistLimit, downloadState, keyView, fetchCall,
                   moreCall, running, timers, submitted>>
    /\ UiFrame

\* handleFetchInfo up to its await; the submit button is disabled while loading
handleFetchInfo ==
    /\ ~loading
    /\ uiUrl # ""
    /\ loading' = TRUE
    /\ videoInfo' = NoMedia
    /\ selectedFormat' = <<>>
    /\ downloadState' = "idle"
    /\ selectedVideoFromPlaylist' = <<>>
    /\ playlistLimit' = PLAYLIST_PAGE_SIZE
    /\ fetchCall' = <<[url |-> uiUrl, maxItems |-> PLAYLIST_PAGE_SIZE]>>
    /\ submitted' = uiUrl
    /\ UNCHANGED <<uiUrl, loadingMorePlaylist, moreCall, running, timers>>
    /\ Render
    /\ UiFrame

\* handleFetchInfo after its await, fetchVideoInfo having resolved with info
FetchInfoResolves(info) ==
    /\ fetchCall # <<>>
    /\ info \in Answers(fetchCall[1].url, fetchCall[1].maxItems)
    /\ videoInfo' = info
    /\ selectedFormat' = IF IsSingleVideo(info) THEN findRecommendedFormat(info.formats)
                         ELSE <<>>
    /\ loading' = FALSE
    /\ fetchCall' = <<>>
    /\ UNCHANGED <<uiUrl, loadingMorePlaylist, selectedVideoFromPlaylist, playlistLimit,
                   downloadState, moreCall, running, timers, submitted>>
    /\ Render
    /\ UiFrame

\* handleFetchInfo after its await, fetchVideoInfo having rejected
FetchInfoRejects ==
    /\ fetchCall # <<>>
    /\ loading' = FALSE
    /\ fetchCall' = <<>>
    /\ UNCHANGED <<uiUrl, loadingMorePlaylist, videoInfo, selectedVideoFromPlaylist,
                   selectedFormat, playlistLimit, downloadState, keyView, moreCall,
                   running, timers, submitted>>
    /\ UiFrame

\* Math.min(playlistLimit + PLAYLIST_PAGE_SIZE, MAX_PLAYLIST_FETCH,
\*          videoInfo.video_count || MAX_PLAYLIST_FETCH)
NextLimit ==
    Min(Min(playlistLimit + PLAYLIST_PAGE_SIZE, MAX_PLAYLIST_FETCH),
        IF videoInfo.video_count # 0 THEN videoInfo.video_count ELSE MAX_PLAYLIST_FETCH)

\* handleLoadMorePlaylist up to its await
handleLoadMorePlaylist ==
    /\ IsPlaylist(videoInfo)
    /\ ~loadingMorePlaylist
    /\ NextLimit > videoInfo.length
    /\ loadingMorePlaylist' = TRUE
    /\ moreCall' = <<[url |-> uiUrl, maxItems |-> NextLimit,
                      selectedVideoFromPlaylist |-> selectedVideoFromPlaylist,
                      selectedFormat |-> selectedFormat]>>
    /\ UNCHANGED <<uiUrl, loading, videoInfo, selectedVideoFromPlaylist, selectedFormat,
                   playlistLimit, downloadState, keyView, fetchCall, running, timers,
                   submitted>>
    /\ UiFrame

\* updatedInfo.videos.find((v) => v.id === selectedId) || null
FindVideo(videos, id) ==
    LET hits == {i \in DOMAIN videos : videos[i].id = id}
    IN  IF hits = {} THEN <<>> ELSE <<videos[CHOOSE i \in hits : \A j \in hits : i <= j]>>

\* handleLoadMorePlaylist after its await, fetchVideoInfo having resolved
LoadMoreResolves(updatedInfo) ==
    /\ moreCall # <<>>
    /\ updatedInfo \in Answers(moreCall[1].url, moreCall[1].maxItems)
    /\ IF IsPlaylist(updatedInfo)
       THEN /\ playlistLimit' = moreCall[1].maxItems
            /\ videoInfo' = updatedInfo
            /\ IF moreCall[1].selectedVideoFromPlaylist # <<>>
               THEN LET selectedId == moreCall[1].selectedVideoFromPlaylist[1].id
                        refreshedSelected == FindVideo(updatedInfo.videos, selectedId)
                    IN  /\ selectedVideoFromPlaylist' = refreshedSelected
                        /\ IF /\ refreshedSelected # <<>>
                              /\ \/ moreCall[1].selectedFormat = <<>>
                                 \/ FindFormat(refreshedSelected[1].formats,
                                               moreCall[1].selectedFormat[1]) = <<>>
                           THEN selectedFormat' =
                                    findRecommendedFormat(refreshedSelected[1].formats)
                           ELSE UNCHANGED selectedFormat
               ELSE UNCHANGED <<selectedVideoFromPlaylist, selectedFormat>>
       ELSE UNCHANGED <<playlistLimit, videoInfo, selectedVideoFromPlaylist,
                        selectedFormat>>
    /\ loadingMorePlaylist' = FALSE
    /\ moreCall' = <<>>
    /\ UNCHANGED <<uiUrl, loading, downloadState, fetchCall, running, timers, submitted>>
    /\ Render
    /\ UiFrame

\* handleLoadMorePlaylist after its await, fetchVideoInfo having rejected
LoadMoreRejects ==
    /\ moreCall # <<>>
    /\ loadingMorePlaylist' = FALSE
    /\ moreCall' = <<>>
    /\ UNCHANGED <<uiUrl, loading, videoInfo, selectedVideoFromPlaylist, selectedFormat,
                   playlistLimit, downloadState, keyView, fetchCall, running, timers,
                   submitted>>
    /\ UiFrame

\* handleVideoSelectFromPlaylist(video), for an entry of the playlist card
handleVideoSelectFromPlaylist(video) ==
    /\ IsPlaylist(videoInfo)
    /\ \E i \in DOMAIN videoInfo.videos : videoInfo.videos[i] = video
    /\ IF selectedVideoFromPlaylist # <<>> /\ selectedVideoFromPlaylist[1].id = video.id
       THEN /\ selectedVideoFromPlaylist' = <<>>
            /\ selectedFormat' = <<>>
       ELSE /\ selectedVideoFromPlaylist' = <<video>>
            /\ selectedFormat' = findRecommendedFormat(video.formats)
    /\ downloadState' = "idle"
    /\ UNCHANGED <<uiUrl, loading, loadingMorePlaylist, videoInfo, playlistLimit,
                   fetchCall, moreCall, running, timers, submitted>>
    /\ Render
    /\ UiFrame

\* handleDownload as the render that holds (video, info) defined it
Download(video, info) ==
    /\ selectedFormat # <<>>
    /\ running + timers < MaxDownloads
    /\ downloadState' = "downloading"
    /\ LET currentVideoInfo ==
               IF video # <<>> THEN video
               ELSE IF IsSingleVideo(info) THEN <<info>> ELSE <<>>
       IN  IF currentVideoInfo = <<>> THEN UNCHANGED running
           ELSE running' = running + 1
    /\ UNCHANGED <<uiUrl, loading, loadingMorePlaylist, videoInfo,
                   selectedVideoFromPlaylist, selectedFormat, playlistLimit, fetchCall,
                   moreCall, timers, submitted>>
    /\ Render
    /\ UiFrame

\* the quality panel, which holds the download button, is on the page
PanelShown == selectedVideoFromPlaylist # <<>> \/ IsSingleVideo(videoInfo)

\* onClick={handleDownload}, disabled={!selectedFormat || downloadState !== "idle"}
ClickDownload ==
    /\ PanelShown
    /\ selectedFormat # <<>>
    /\ downloadState = "idle"
    /\ Download(selectedVideoFromPlaylist, videoInfo)

\* onKeyDown, Ctrl/Cmd+Shift+D: if (downloadState === "idle" && selectedFormat)
onKeyDown ==
    /\ downloadState = "idle"
    /\ selectedFormat # <<>>
    /\ Download(keyView.selectedVideoFromPlaylist, keyView.videoInfo)

\* handleDownload after its await, simulateDownload having resolved: the file is
\* saved and the reset timer armed
DownloadResolves ==
    /\ running > 0
    /\ running' = running - 1
    /\ downloadState' = "completed"
    /\ timers' = timers + 1
    /\ UNCHANGED <<uiUrl, loading, loadingMorePlaylist, videoInfo,
                   selectedVideoFromPlaylist, selectedFormat, playlistLimit, fetchCall,
                   moreCall, submitted>>
    /\ Render
    /\ UiFrame

\* handleDownload after its await, simulateDownload having rejected
DownloadRejects ==
    /\ running > 0
    /\ running' = running - 1
    /\ downloadState' = "idle"
    /\ UNCHANGED <<uiUrl, loading, loadingMorePlaylist, videoInfo,
                   selectedVideoFromPlaylist, selectedFormat, playlistLimit, fetchCall,
                   moreCall, timers, submitted>>
    /\ Render
    /\ UiFrame

\* setTimeout(() => { setDownloadState('idle'); ... }, 3000)
ResetTimer ==
    /\ timers > 0
    /\ timers' = timers - 1
    /\ downloadState' = "idle"
    /\ UNCHANGED <<uiUrl, loading, loadingMorePlaylist, videoInfo,
                   selectedVideoFromPlaylist, selectedFormat, playlistLimit, fetchCall,
                   moreCall, running, submitted>>
    /\ Render
    /\ UiFrame

PlaylistEntries == UNION {{list[i] : i \in DOMAIN list} : list \in EntryLists}

NextUi ==
    \/ \E text \in UiUrls : setUrl(text)
    \/ handleFetchInfo
    \/ \E info \in Answers("V", MAX_PLAYLIST_FETCH) \cup Answers("P", MAX_PLAYLIST_FETCH) :
           FetchInfoResolves(info)
    \/ FetchInfoRejects
    \/ handleLoadMorePlaylist
    \/ \E info \in Answers("V", MAX_PLAYLIST_FETCH) \cup Answers("P", MAX_PLAYLIST_FETCH) :
           LoadMoreResolves(info)
    \/ LoadMoreRejects
    \/ \E video \in PlaylistEntries : handleVideoSelectFromPlaylist(video)
    \/ ClickDownload
    \/ onKeyDown
    \/ DownloadResolves
    \/ DownloadRejects
    \/ ResetTimer

SpecUi == Init /\ [][NextUi]_vars

\* promises settle and timers fire; what the user does is up to the user
FairSpecUi ==
    /\ SpecUi
    /\ WF_vars(DownloadResolves \/ DownloadRejects)
    /\ WF_vars(ResetTimer)
    /\ WF_vars(FetchInfoRejects
                 \/ \E info \in Answers("V", MAX_PLAYLIST_FETCH)
                                  \cup Answers("P", MAX_PLAYLIST_FETCH) :
                        FetchInfoResolves(info))
    /\ WF_vars(LoadMoreRejects
                 \/ \E info \in Answers("V", MAX_PLAYLIST_FETCH)
                                  \cup Answers("P", MAX_PLAYLIST_FETCH) :
                        LoadMoreResolves(info))

(***************************************************************************)
(* Properties of the download engines.                                     *)
(***************************************************************************)

\* C1: a download that succeeds has made exactly one callback with progress 100, and
\* that callback is the last one made before the promise resolves; a download that
\* fails has made none; no download ever makes two.
C1_TerminalSampleOnce ==
    /\ hundreds <= 1
    /\ pc = "completed" => hundreds = 1 /\ lastSample.progress = 1000
    /\ pc = "failed" => hundreds = 0
    /\ pc \in {"fetching", "reading", "ticking"} => hundreds = 0

\* a streamed download completed after an in-loop sample was made with at least as
\* many bytes received as the total in use
C1_Witness ==
    /\ pc = "completed"
    /\ engine = "real"
    /\ loopAt[2] # -1
    /\ contentLength > 0
    /\ receivedLength >= contentLength
    /\ hundreds = 1

\* C2: within one invocation every callback reports at least the progress, and is made
\* with at least the transferred bytes, of the callback before it, the terminal 100%
\* sample included.
C2_SamplesMonotone ==
    [][lastSample # NoSample /\ pc' # "idle"
         => /\ lastSample'.progress >= lastSample.progress
            /\ lastBytes' >= lastBytes]_vars

\* a second in-loop sample was made, with more bytes and more progress than the first
C2_Witness ==
    /\ pc = "reading"
    /\ lastKind = "loop"
    /\ loopAt[1] # -1
    /\ lastSample.progress > 0
    /\ lastBytes = 1400000

\* the number a string of digits declares, most significant digit first
RECURSIVE DeclaredLength(_)
DeclaredLength(h) ==
    IF h = <<>> THEN 0
    ELSE DigitValue(h[Len(h)]) + 10 * DeclaredLength(SubSeq(h, 1, Len(h) - 1))

\* the size hint, 0 standing for "unknown"
HintOrUnknown(fileSize) == IF fileSize = <<>> THEN 0 ELSE fileSize[1]

C4_Transition(from, to) ==
    \/ from = to /\ from \in {"idle", "fetching", "reading"}
    \/ from = "idle" /\ to = "fetching"
    \/ from = "fetching" /\ to \in {"reading", "failed"}
    \/ from = "reading" /\ to \in {"completed", "failed"}

\* C4: an invocation of the streaming engine goes Idle -> InFlight -> Completed or
\* Failed: it issues exactly one request, ends with a payload or with an error and
\* never both, and once it has ended it issues no request, makes no callback and
\* changes no outcome.
C4_OneRequestOneOutcome ==
    [][engine' = "real" =>
        /\ Len(requests') = 1
        /\ (pc' = "completed") = (result' # NoBlob)
        /\ (pc' = "failed") = (failure' # NoError)
        /\ pc' \in {"fetching", "reading", "completed", "failed"}
        /\ pc \in {"completed", "failed"}
             => UNCHANGED <<pc, requests, lastSample, firstKind, lastKind, lastBytes,
                            hundreds, result, failure>>
        /\ pc \notin {"completed", "failed"} => C4_Transition(pc, pc')]_vars

\* the stream broke after an in-loop sample: the invocation has failed
C4_Witness ==
    /\ engine = "real"
    /\ pc = "failed"
    /\ lastKind = "loop"
    /\ Len(requests) = 1
    /\ result = NoBlob

C9_RateLimited ==
    loopAt[2] # -1 =>
        loopAt[2] - (IF loopAt[1] = -1 THEN startTime ELSE loopAt[1]) > 150

\* two in-loop samples, the second 151 ms after the first
C9_Witness ==
    /\ loopAt[1] # -1
    /\ loopAt[2] - loopAt[1] = 151
    /\ reads = 2

\* C6 (as claimed): every invocation makes the initial sample its first callback,
\* before the outcome of the request is known: no failure comes before it, and no
\* other sample comes first.
C6_InitialSampleFirst ==
    /\ pc = "failed" => firstKind = "initial"
    /\ lastSample # NoSample => firstKind = "initial"

\* the classifications of a rejected download, read off the error's message
IsConnectionLost(error) == error.name = "Error" /\ error.message = LostConnectionMessage
IsBackendUnreachable(error) == error.name = "Error" /\ error.message = CannotReachMessage

\* C7 (as claimed): a transport failure before the response was opened fails with
\* BackendUnreachable, one after the stream was opened fails with ConnectionLost.
C7_TransportFailureClassified ==
    pc = "failed" =>
        /\ response = NoResponse
             => IsBackendUnreachable(failure) /\ ~IsConnectionLost(failure)
        /\ (response.ok /\ response.hasBody)
             => IsConnectionLost(failure) /\ ~IsBackendUnreachable(failure)

\* C8 (as claimed): a non-2xx response fails with the 'detail' of a JSON body, else
\* with the text of a non-empty plain-text body, else with the status-code default.
C8_RejectionMessage ==
    (pc = "failed" /\ response.status # <<>>) =>
        /\ failure.name = "Error"
        /\ failure.message = DownloadFailedPrefix \o
             (IF response.body.kind = "json" /\ response.body.detail # <<>>
                THEN response.body.detail
              ELSE IF response.body.kind = "text" /\ response.body.text # <<>>
                THEN response.body.text
              ELSE response.status)

\* C10: the simulated download terminates: once ticking it completes, whatever the
\* increments; when it has completed the timer is stopped, exactly one callback
\* reported 100%, and the payload's type is audio exactly when convertToMp3 is set
\* and the playlist combine mode is not 'video'.
C10_MockTerminates ==
    /\ [](engine = "mock" /\ pc \in {"resolving", "completed"}
            => ~interval /\ hundreds = 1 /\ lastSample.progress = 1000)
    /\ [](engine = "mock" /\ pc = "completed"
            => result = [size |-> 23,
                         type |-> IF args.convertToMp3 /\ args.playlistCombine # "video"
                                  THEN "audio/mpeg" ELSE "video/mp4"])
    /\ (pc = "ticking") ~> (engine = "mock" /\ pc = "completed")

\* a simulated playlist download combined as audio resolved with an audio payload
C10_Witness ==
    /\ engine = "mock"
    /\ pc = "completed"
    /\ args.convertToMp3
    /\ args.playlistCombine = "audio"
    /\ result.type = "audio/mpeg"
    /\ progress > 1000

(***************************************************************************)
(* Properties of the format catalog, stated on the call last made          *)
(* (call, returned) for the formats on display.                            *)
(***************************************************************************)
Elements(fs) == {fs[i] : i \in DOMAIN fs}

UsableAudio(f) == f.acodec \notin {"undefined", "none"}
UsableVideo(f) == f.vcodec \notin {"undefined", "none"}

\* known size, else approximate size, else 0
KnownElseApprox(f) ==
    IF f.filesize # <<>> THEN f.filesize[1]
    ELSE IF f.filesize_approx # <<>> THEN f.filesize_approx[1] ELSE 0

Bitrate(f) == IF f.tbr # <<>> THEN f.tbr[1] ELSE 0

\* Audio-kind or without usable video codec, and with a usable audio codec
AudioCandidates(fs) ==
    {f \in Elements(fs) : (f.type = "audio" \/ ~UsableVideo(f)) /\ UsableAudio(f)}

\* the candidates of maximal size and, among those, of maximal bitrate
BestAudioCandidates(fs) ==
    {f \in AudioCandidates(fs) :
        \A g \in AudioCandidates(fs) :
            \/ KnownElseApprox(g) < KnownElseApprox(f)
            \/ KnownElseApprox(g) = KnownElseApprox(f) /\ Bitrate(g) <= Bitrate(f)}

\* the format of the list the call selected, as a set of at most one format
SelectedOf(fs) == {f \in Elements(fs) : f.format_id = call.selectedFormatId}

\* C11: with convertToMp3, buildFormatString returns one id -- the id it was given,
\* the id of an audio candidate of the list, or 'bestaudio' -- and never an
\* expression joined with '+', for every list and every selected id.
C11_NoJoinWhenConverting ==
    (call.fn = "buildFormatString" /\ call.convertToMp3) =>
        /\ Len(returned) = 1
        /\ returned[1] # "+"
        /\ returned[1] \in {call.selectedFormatId, "bestaudio"}
                            \cup {f.format_id : f \in AudioCandidates(formats)}

\* a video-only selection was converted and an audio format of the list was substituted
C11_Witness ==
    /\ call.fn = "buildFormatString"
    /\ call.convertToMp3
    /\ \E f \in SelectedOf(formats) : f.type = "video" /\ ~UsableAudio(f)
    /\ returned # <<call.selectedFormatId>>
    /\ \E g \in AudioCandidates(formats) : returned = <<g.format_id>>

\* C12: without convertToMp3 and for a selected id of the list, buildFormatString
\* returns the id unchanged when the selected format has a usable audio codec,
\* "{id}+{audioId}" with the best audio candidate when it has none and a candidate
\* exists, and "{id}+bestaudio" when no candidate exists.
C12_MergedRequest ==
    (call.fn = "buildFormatString" /\ ~call.convertToMp3) =>
        \A sel \in SelectedOf(formats) :
            IF UsableAudio(sel) THEN returned = <<sel.format_id>>
            ELSE IF AudioCandidates(formats) # {}
            THEN \E best \in BestAudioCandidates(formats) :
                     returned = <<sel.format_id, "+", best.format_id>>
            ELSE returned = <<sel.format_id, "+", "bestaudio">>

\* a video-only selection was joined with the better of two audio candidates
C12_Witness ==
    /\ call.fn = "buildFormatString"
    /\ ~call.convertToMp3
    /\ \E sel \in SelectedOf(formats) : ~UsableAudio(sel)
    /\ Cardinality(AudioCandidates(formats)) >= 2
    /\ Cardinality(BestAudioCandidates(formats)) = 1
    /\ Len(returned) = 3
    /\ returned[1] = call.selectedFormatId
    /\ returned[3] # "bestaudio"

Videos(fs) == {f \in Elements(fs) : f.type = "video"}

\* C14: for a list with at least one Video entry of parseable resolution,
\* findRecommendedFormat returns the id of a Video entry of maximal parsed height;
\* among the entries of that height one with a usable audio codec if there is one,
\* and among those the one of largest size.
C14_RecommendedVideo ==
    (call.fn = "findRecommendedFormat" /\ \E v \in Videos(formats) : parseHeight(v) > 0) =>
        \E f \in Videos(formats) :
            /\ returned = <<f.format_id>>
            /\ \A g \in Videos(formats) : parseHeight(g) <= parseHeight(f)
            /\ \A g \in Videos(formats) :
                   parseHeight(g) = parseHeight(f) =>
                       /\ UsableAudio(g) => UsableAudio(f)
                       /\ UsableAudio(g) = UsableAudio(f)
                              => KnownElseApprox(g) <= KnownElseApprox(f)

\* of two entries of the maximal height the smaller one, which has audio, was
\* recommended though the larger video-only entry comes first in the list
C14_Witness ==
    /\ call.fn = "findRecommendedFormat"
    /\ \E f, g \in Videos(formats) :
           /\ returned = <<f.format_id>>
           /\ parseHeight(f) > 0
           /\ parseHeight(g) = parseHeight(f)
           /\ UsableAudio(f) /\ ~UsableAudio(g)
           /\ KnownElseApprox(g) > KnownElseApprox(f)
           /\ formats[1] = g

\* C15: for a non-empty list of Audio entries only, findRecommendedFormat returns the
\* id of an entry whose size (known size, else approximate size, else 0) is the
\* maximum of the list; for the empty list it returns none.
C15_RecommendedAudio ==
    (call.fn = "findRecommendedFormat" /\ \A f \in Elements(formats) : f.type = "audio") =>
        IF formats = <<>> THEN returned = <<>>
        ELSE \E f \in Elements(formats) :
                 /\ returned = <<f.format_id>>
                 /\ \A g \in Elements(formats) : KnownElseApprox(g) <= KnownElseApprox(f)

\* of several Audio entries the largest was recommended, and it is not the first
C15_Witness ==
    /\ call.fn = "findRecommendedFormat"
    /\ Len(formats) >= 2
    /\ \A f \in Elements(formats) : f.type = "audio"
    /\ returned # <<formats[1].format_id>>
    /\ \E f \in Elements(formats) :
           /\ returned = <<f.format_id>>
           /\ KnownElseApprox(f) > KnownElseApprox(formats[1])

\* C16: pickBestAudioFormat returns none exactly when no format of the list is
\* (Audio-kind or without usable video codec) with a usable audio codec; otherwise
\* it returns a format passing that filter, of maximal size among the filtered
\* formats and of maximal bitrate among those of maximal size.
C16_BestAudioCandidate ==
    call.fn = "pickBestAudioFormat" =>
        /\ (returned = <<>>) <=> (AudioCandidates(formats) = {})
        /\ returned # <<>> => Len(returned) = 1 /\ returned[1] \in BestAudioCandidates(formats)

\* the candidate returned won on bitrate against an earlier candidate of the same size
C16_Witness ==
    /\ call.fn = "pickBestAudioFormat"
    /\ returned # <<>>
    /\ formats[1] \in AudioCandidates(formats)
    /\ formats[1] # returned[1]
    /\ KnownElseApprox(formats[1]) = KnownElseApprox(returned[1])
    /\ Bitrate(formats[1]) < Bitrate(returned[1])

\* a size of 0 counts as absent: the exact size when positive, else the approximate
\* size when positive, else 0
PositiveSize(f) ==
    IF f.filesize # <<>> /\ f.filesize[1] > 0 THEN f.filesize[1]
    ELSE IF f.filesize_approx # <<>> /\ f.filesize_approx[1] > 0 THEN f.filesize_approx[1]
    ELSE 0

Tiers == {"video_1440p", "video_1080p", "video_720p"}

\* C17: every ranking by size treats a filesize of 0 like an absent one: the format
\* ranked first has the largest size when 0 falls back to the approximate size.
C17_ZeroSizeIsAbsent ==
    /\ (call.fn = "pickBestAudioFormat" /\ returned # <<>>) =>
           \A g \in AudioCandidates(formats) : PositiveSize(g) <= PositiveSize(returned[1])
    /\ (call.fn = "findRecommendedFormat" /\ formats # <<>>
            /\ \A f \in Elements(formats) : f.type = "audio") =>
           \E f \in Elements(formats) :
               /\ returned = <<f.format_id>>
               /\ \A g \in Elements(formats) : PositiveSize(g) <= PositiveSize(f)
    /\ call.fn = "options" =>
           \A t \in Tiers :
               returned[t] # <<>> =>
                   \A g \in Videos(formats) :
                       (/\ returned[t] # <<g>>
                        /\ getHeight(g) = getHeight(returned[t][1])
                        /\ UsableAudio(g) = UsableAudio(returned[t][1])
                        /\ PositiveSize(g) > PositiveSize(returned[t][1]))
                           => \E u \in Tiers : returned[u] = <<g>>

\* the height range the quality-preset view announces for a tier
TierMin(t) == CASE t = "video_1440p" -> 1440 [] t = "video_1080p" -> 1000 [] t = "video_720p" -> 700
TierMax(t) == CASE t = "video_1440p" -> 2000 [] t = "video_1080p" -> 1400 [] t = "video_720p" -> 1000

InAnnouncedRange(f, t) == f.type = "video" /\ TierMin(t) <= getHeight(f) /\ getHeight(f) < TierMax(t)

\* C18: the format a height tier offers is a Video format whose height is inside the
\* tier's range (1440p: 1440..1999, 1080p: 1000..1399, 720p: 700..999), one with
\* audio if the range has one; no format is offered by two tiers, and a tier whose
\* range holds no format offers none.
C18_TiersInRange ==
    call.fn = "options" =>
        /\ \A t \in Tiers :
               IF \E f \in Elements(formats) : InAnnouncedRange(f, t)
               THEN /\ returned[t] # <<>>
                    /\ InAnnouncedRange(returned[t][1], t)
                    /\ \A g \in Elements(formats) :
                           InAnnouncedRange(g, t) /\ UsableAudio(g) => UsableAudio(returned[t][1])
               ELSE returned[t] = <<>>
        /\ \A t, u \in Tiers : t # u /\ returned[t] # <<>> => returned[t] # returned[u]

(***************************************************************************)
(* Properties of the metadata fetch, stated on its outcome.                *)
(***************************************************************************)
\* the classifications of a failed metadata fetch
IsInfoUnreachable(error) == error = PlainError(InfoCannotReachMessage)
IsInfoBackendError(error) ==
    /\ error.name = "Error"
    /\ \/ error.message \in {body.detail : body \in {b \in ErrorBodies : b.detail # <<>>}}
       \/ error.message \in {<<"Server", "error:", status>> : status \in InfoStatuses}

\* fetch() was rejected because no connection was made
InfoNetworkFailure ==
    infoPc = "failed" /\ infoEngine = "real" /\ infoResponse = NoInfoResponse /\ ~infoAborted

\* the fetch failed on a response that is not 2xx
InfoRejectedByStatus ==
    infoPc = "failed" /\ infoEngine = "real" /\ infoResponse # NoInfoResponse
        /\ ~infoResponse.ok

\* C19 (as claimed): a metadata fetch that could not connect fails with
\* BackendUnreachable and never with BackendError, and a response that is not 2xx
\* never fails with BackendUnreachable, for every URL.
C19_UnreachableClassified ==
    /\ InfoNetworkFailure
         => IsInfoUnreachable(infoFailure) /\ ~IsInfoBackendError(infoFailure)
    /\ InfoRejectedByStatus => ~IsInfoUnreachable(infoFailure)

\* C20 (as claimed): for every URL, a response that is not 2xx fails with an error
\* carrying the detail of the JSON error body, or 'Server error: <status>' when the
\* body is not JSON or has no detail.
C20_BackendErrorMessage ==
    InfoRejectedByStatus =>
        /\ infoFailure.name = "Error"
        /\ infoFailure.message =
             (IF infoResponse.body.kind = "json" /\ infoResponse.body.detail # <<>>
                THEN infoResponse.body.detail
              ELSE <<"Server", "error:", infoResponse.status>>)

\* the pieces of a URL that follow its host
StartsPath(piece) == piece \in {"/watch?v=1", "/video/1", "/abc", "/?ref="}

\* the host of a URL: the pieces between the scheme and the path; none when the
\* text is not a URL
HostOf(url) ==
    IF ~IsValidUrl(url) THEN <<>>
    ELSE LET paths == {i \in DOMAIN url : StartsPath(url[i])}
             end == IF paths = {} THEN Len(url)
                    ELSE (CHOOSE i \in paths : \A j \in paths : i <= j) - 1
         IN  LowerUrl(SubSeq(url, 2, end))

NeedsCookies(url) == Includes(HostOf(url), "facebook.com") \/ Includes(HostOf(url), "fb.watch")

IsAuthRequired(error) == error = PlainError(FacebookMessage)
IsRequestTimeout(error) == error = PlainError(TimedOutMessage)

\* C21 (as claimed): the metadata fetch fails with AuthRequired only when the
\* normalisation of a 2xx answer threw and the host of the URL is facebook.com or
\* fb.watch; a non-2xx answer and a timeout keep their own classification even for
\* such URLs.
C21_AuthRequiredOnlyForNormalization ==
    infoPc = "failed" =>
        /\ IsAuthRequired(infoFailure) => infoResponse.ok /\ NeedsCookies(infoUrl)
        /\ InfoRejectedByStatus => IsInfoBackendError(infoFailure)
        /\ infoAborted => IsRequestTimeout(infoFailure)

\* C22 (as claimed): a metadata fetch that is pending -- waiting for the headers or
\* for the body -- eventually settles, by an answer or by the timeout.
C22_FetchSettles ==
    (infoPc \in {"fetching", "reading", "waiting"}) ~> (infoPc \in {"done", "failed"})

\* every format of the media info the fetch returned
ResultFormats ==
    Elements(infoResult.formats)
        \cup UNION {Elements(infoResult.videos[i].formats) : i \in DOMAIN infoResult.videos}

\* C23 (as claimed): a normalised format is Audio exactly when the backend entry has
\* no usable video codec and has a usable audio codec; every other entry is Video,
\* for a single item and for every item of a playlist.
C23_KindFromCodecs ==
    (infoPc = "done" /\ infoEngine = "real") =>
        \A f \in ResultFormats :
            (f.type = "audio") <=> (~UsableVideo(f) /\ UsableAudio(f))

(***************************************************************************)
(* Properties of formatFilename, stated on the name it returned.           *)
(***************************************************************************)
NameKeys == {KeyTitle, KeyUploader, KeyResolution, KeyFormat, KeyId, KeyExt}

\* the template holds a token
HasToken(template) ==
    \E i \in DOMAIN template, key \in NameKeys :
        StartsWithI(SubSeq(template, i, Len(template)), Token(key))

\* '.{extension}' without regard to the case of the letters; the extension may be
\* given with its dot
DotExtension(ext) ==
    <<".">> \o ToLowerCase(IF ext # <<>> /\ ext[1] = "." THEN SubSeq(ext, 2, Len(ext)) ELSE ext)

\* the name ends with the suffix, and what precedes that ending does not
EndsOnceWith(name, suffix) ==
    /\ Len(name) >= Len(suffix)
    /\ SubSeq(ToLowerCase(name), Len(name) - Len(suffix) + 1, Len(name)) = suffix
    /\ \/ Len(name) < 2 * Len(suffix)
       \/ SubSeq(ToLowerCase(name), Len(name) - 2 * Len(suffix) + 1, Len(name) - Len(suffix))
              # suffix

ControlChars == {"TAB", "DEL"}

\* C25 (as claimed): for every template, token values, fallback and extension, the
\* name formatFilename returns holds none of \ / * ? : " < > | and no control
\* character.
C25_NameIsClean ==
    nameResult # <<>> =>
        \A i \in DOMAIN nameResult[1] :
            nameResult[1][i] \notin {"\\", "/", "*", "?", ":", "\"", "<", ">", "|"} \cup ControlChars

(***************************************************************************)
(* Properties of the configuration.                                        *)
(***************************************************************************)
ConfigFields == {"useServer", "serverUrl", "filenameTemplate"}

\* the record in which the fields the partial names have the new value and the
\* others the value of the configuration
MergedAsClaimed(config, partial) ==
    [field \in ConfigFields |->
        IF partial[field] # <<>> THEN partial[field][1] ELSE config[field]]

EngineAsClaimed == IF currentConfig.useServer THEN "real" ELSE "mock"

\* C26: updateApiConfig(partial) leaves getApiConfig() equal to the merge of the
\* configuration and the partial, whatever updates came before; simulateDownload and
\* fetchVideoInfo choose the real engine exactly when useServer is set at the moment
\* they are called.
C26_ConfigMerge ==
    /\ \A partial \in ConfigPartials :
           ENABLED (updateApiConfig(partial)
                      /\ getApiConfig' = MergedAsClaimed(currentConfig, partial))
    /\ pc = "idle" =>
           \A a \in Arguments :
               /\ ENABLED (simulateDownload(a) /\ engine' = EngineAsClaimed)
               /\ ~ENABLED (simulateDownload(a) /\ engine' # EngineAsClaimed)
    /\ infoPc = "idle" =>
           \A url \in InfoUrls :
               /\ ENABLED (fetchVideoInfo(url) /\ infoEngine' = EngineAsClaimed)
               /\ ~ENABLED (fetchVideoInfo(url) /\ infoEngine' # EngineAsClaimed)

\* after several updates the backend and the template are not the defaults, a
\* download runs on the simulated engine chosen when it was called, and the
\* configuration now names the real engine
C26_Witness ==
    /\ engine = "mock"
    /\ infoEngine = "real"
    /\ currentConfig.useServer
    /\ currentConfig.serverUrl # DefaultConfig.serverUrl
    /\ currentConfig.filenameTemplate # DefaultConfig.filenameTemplate

(***************************************************************************)
(* Properties of the estimate of the time left.                            *)
(***************************************************************************)
IsNumericEta(eta) == eta.label \in {"s", "m s"}

\* C27: every numeric ETA the download engine emits is a non-negative number of
\* seconds, also when the bytes received exceed the total assumed from the hint.
C27_EtaNonNegative ==
    IsNumericEta(lastSample.eta) => lastSample.eta.min >= 0 /\ lastSample.eta.sec >= 0

(***************************************************************************)
(* Properties of the page.                                                 *)
(***************************************************************************)
\* C28: every handleDownload that sets downloadState to 'downloading' brings it
\* back to 'idle' in the end; the page never stays at 'downloading' for ever.
C28_DownloadingEnds == (downloadState = "downloading") ~> (downloadState = "idle")

\* C29: at most one download is in flight, and downloadState is 'idle' only when
\* no simulateDownload call is still running.
C29_OneDownload ==
    /\ running <= 1
    /\ downloadState = "idle" => running = 0

FormatIdsOf(video) == {video.formats[i].format_id : i \in DOMAIN video.formats}

\* C30: the media info on display comes from the latest submitted fetch, and the
\* format selected for the selected playlist video is one of that video's formats.
C30_LatestInfo ==
    /\ videoInfo # NoMedia => videoInfo.requested = submitted
    /\ (selectedVideoFromPlaylist # <<>> /\ selectedFormat # <<>>) =>
           selectedFormat[1] \in FormatIdsOf(selectedVideoFromPlaylist[1])

====
